---- MODULE Spec2Model ----
(***************************************************************************)
(* freecanard: a FreeRTOS wrapper that serialises every access to one      *)
(* libcanard instance and its o1heap allocator behind one mutex, hands     *)
(* received CAN frames from ISR/task context to a processing task through  *)
(* a bounded queue, and drains the libcanard TX queue inside each transmit *)
(* call.                                                                   *)
(*                                                                         *)
(* Threads are the application tasks, the processing task and the ISR.     *)
(* Every task is a small program counter machine; one action is one        *)
(* statement (or one library call) of freecanard.c.  The ISR entry point   *)
(* runs to completion in one step (tasks cannot preempt an ISR).           *)
(***************************************************************************)
EXTENDS Integers, Sequences, FiniteSets, TLC

(* ------------------------------ bounds --------------------------------- *)
\* frames libcanard may split one transfer into
MaxFrames == 3
\* smaller capacity of the processing-task queue (processing_task_size) in
\* the receive specification
QueueCap == 2
\* longest timeout (in ticks) a caller of the task ingestion passes
MaxTimeout == 1
\* calls the environment makes in one behaviour of the transmit
\* specification (SpecTx)
MaxTxCalls == 2
\* ingestion calls in one behaviour of the receive specification (SpecRx)
MaxRxCalls == 3
\* ingestion calls and ticks in one behaviour of the timed specification
\* (SpecTime), and its queue capacity
TimeRxCalls == 2
MaxTick == 1
TimeQueueCap == 1
\* transmit, ingestion and (un)subscribe calls in one behaviour of the
\* lock specification (Spec), and its queue capacity
AllTxCalls == 1
AllRxCalls == 1
AllSubCalls == 1
AllQueueCap == 1
\* calls where a refused frame meets later frames and a transmit call
DropTxCalls == 1
DropRxCalls == 2
\* calls that follow freecanard_init
BootTxCalls == 1
BootRxCalls == 1
BootSubCalls == 1
\* transmit calls made under each MTU
MtuTxCalls == 1
\* calls made around a callback
CbTxCalls == 1
CbRxCalls == 2
CbSubCalls == 1
\* calls and ticks around the tick count at which 10^6 * ticks passes 2^32
UsRxCalls == 2
UsTicks == 1
LastTickBelowWrap == 4294

(* --------------------------- program constants ------------------------- *)
configTICK_RATE_HZ == 1000
CANARD_MTU_CAN_FD == 64
CANARD_MTU_CAN_CLASSIC == 8
CANARD_NODE_ID_UNSET == 255
\* TickType_t is 32 bits wide: two 16-bit limbs
Limb == 65536
\* (TickType_t)1e+6
Million == 1000000
TransferIdWidth == 256

(* ------------------------------ universe ------------------------------- *)
Tasks == {"t1", "t2"}
ProcTask == "proc"
IsrCtx == "isr"
Threads == Tasks \cup {ProcTask}
\* the task that hands received frames to the task-context entry point (the
\* interrupt handler hands them to the other one)
Feeders == {"t1"}
\* the task that publishes and the task that subscribes where the two are
\* told apart
Publisher == "t1"
Subscriber == "t2"
NoThread == "none"
\* the context that calls freecanard_init
InitCtx == "init"
NULL == "NULL"
\* the null value of a pointer to a structure (a transfer, a frame, a queue item)
NoObject == [null |-> TRUE]
\* what a function declared void hands back
Void == [void |-> TRUE]

\* MTUs the engine is configured with: classic CAN, a shorter CAN FD frame
\* length, full CAN FD
MtuValues == {CANARD_MTU_CAN_CLASSIC, 32, CANARD_MTU_CAN_FD}

\* tick counts at which the first frame may come in
UsStartTicks == {LastTickBelowWrap - 1, LastTickBelowWrap}

\* CanardPriority values offered by callers (lower number = sent first)
Priorities == {0, 1}
\* payload_len values offered by callers
PayloadLens == {0, 8}
\* destination nodes of requests / responses, ports used by the callers
DestNodes == {42}
PortIds == {1}
\* what platform_send may return: 0 accepted, nonzero busy / error
SendResults == {0, -1}
\* received frames handed to the ingestion entry points: the k-th call made
\* delivers frame k, whose data tell it from every other frame; a frame's
\* port is its CAN id
FrameIds == {1}
TransportIdx == {0, 1}
RxFrame(k, i) == [id |-> i, data_len |-> 1 + (k % 2), data |-> [j \in 1..(1 + (k % 2)) |-> k]]
\* what canardRxAccept may return besides 1 and 0: a negated error code
AcceptError == -1

VARIABLES
    mutex,        \* holder of cookie->mutex_, or NoThread
    pc,           \* position of every task (application tasks + processing task)
    transfer,     \* per task: the CanardTransfer local of a transmit call
    txf,          \* per task: the txf pointer of the drain loop
    call,         \* per task: arguments / bookkeeping of the running call
    ret,          \* per task: what the last finished call returned to its caller
    transfer_id,  \* the application's persistent transfer-id counter (uint8_t)
    txq,          \* libcanard's TX queue (priority ordered)
    subs,         \* libcanard's subscriptions (set of ports)
    rx_held,      \* blocks libcanard's RX sessions hold (reassembly state)
    heap,         \* live o1heap blocks
    alloc_count,  \* calls of memory_allocate, by the side (tx / rx) that made them
    free_count,   \* calls of memory_free, by the side (tx / rx) of the block
    heap_fault,   \* a block was freed that was not live
    mtu_bytes,    \* ins->mtu_bytes
    setup,        \* freecanard_init: its position, and what it has set so far
    on_transfer_received_, \* cookie->on_transfer_received_
    queue_size,   \* processing_task_size, the capacity xQueueCreate was given
    id_log,       \* history: the transfer ids handed out, and the counter value stored
    rxq,          \* cookie->processing_task_queue_
    queue_item,   \* processing task: the dequeued item
    canard_frame, \* processing task: the CanardFrame handed to canardRxAccept
    rx_transfer,  \* processing task: the CanardTransfer filled by canardRxAccept
    now,          \* xTaskGetTickCount()
    budget,       \* calls the environment may still make
    tx_trace,     \* history: platform_send / canardTxPop / memory_free events
    in_log,       \* history: ingestion calls and what became of them
    proc_log      \* history: the processing task's dequeues, accepts, callbacks, frees

vars == <<mutex, pc, transfer, txf, call, ret, transfer_id, txq, subs, rx_held,
          heap, alloc_count, free_count, heap_fault, mtu_bytes, setup, on_transfer_received_, queue_size, id_log, rxq, queue_item,
          canard_frame, rx_transfer, now, budget, tx_trace, in_log, proc_log>>

heapVars == <<heap, alloc_count, free_count, heap_fault>>

(* ------------------------------ helpers -------------------------------- *)
Range(s) == {s[i] : i \in 1..Len(s)}

NoCall == [op |-> "none"]

\* Converts a time in ticks to a time in microseconds:
\*   (TickType_t)(((TickType_t)1e+6 * (TickType_t)ticks) / (TickType_t)configTICK_RATE_HZ)
\* The product wraps around modulo 2^32; it is computed in 16-bit limbs
\* (hi, lo) so that no intermediate value leaves TLC's integers.
pdTICKS_TO_US(xTimeInTicks) ==
    LET tl == xTimeInTicks % Limb
        th == (xTimeInTicks \div Limb) % Limb
        p0 == (Million % Limb) * tl
        lo == p0 % Limb
        hi == ((p0 \div Limb) + (Million \div Limb) * tl + (Million % Limb) * th) % Limb
    IN  ((hi \div configTICK_RATE_HZ) * Limb)
        + (((hi % configTICK_RATE_HZ) * Limb + lo) \div configTICK_RATE_HZ)

freecanard_get_us == pdTICKS_TO_US(now)

(* ------------------------------ the mutex ------------------------------ *)
\* where a thread continues once xSemaphoreTake has returned
AfterTake(p) ==
    CASE p = "tx_take" -> "tx_prep"
      [] p = "sub_take" -> "sub_body"
      [] p = "unsub_take" -> "unsub_body"
      [] p = "acc_take" -> "acc_accept"
      [] p = "cb_take" -> "cb_held"

\* ("cb_take": the take of an operation that the transfer-received callback
\* calls, in the processing task)
TakePcs == {"tx_take", "sub_take", "unsub_take", "acc_take", "cb_take"}

\* a take that does not wait for the holder to give the mutex
freecanard_take_mutex_nowait(t) ==
    /\ pc[t] \in TakePcs
    /\ mutex' = t
    /\ pc' = [pc EXCEPT ![t] = AfterTake(pc[t])]

\* a take on a recursive mutex: the holder may take it again
freecanard_take_mutex_recursive(t) ==
    /\ pc[t] \in TakePcs
    /\ mutex \in {NoThread, t}
    /\ mutex' = t
    /\ pc' = [pc EXCEPT ![t] = AfterTake(pc[t])]

\* xSemaphoreTake(*mutex, portMAX_DELAY): blocks until the mutex is free
freecanard_take_mutex(t) ==
    /\ pc[t] \in TakePcs
    /\ mutex = NoThread
    /\ mutex' = t
    /\ pc' = [pc EXCEPT ![t] = AfterTake(pc[t])]

\* a give that leaves the mutex with its holder
freecanard_give_mutex_lost(t) == mutex' = mutex

\* xSemaphoreGive(*mutex): only the holder's give releases a mutex
freecanard_give_mutex(t) ==
    mutex' = IF mutex = t THEN NoThread ELSE mutex

TakeMutex(t) ==
    /\ freecanard_take_mutex(t)
    /\ UNCHANGED <<transfer, txf, call, ret, transfer_id, txq, subs, rx_held,
                   heap, alloc_count, free_count, heap_fault, mtu_bytes, setup, on_transfer_received_, queue_size, id_log, rxq,
                   queue_item, canard_frame, rx_transfer, now, budget,
                   tx_trace, in_log, proc_log>>

(* --------------------------- allocator adapter ------------------------- *)
\* a block is <<side, ...>>: "tx" for a queued CanardFrame, "rx" for memory
\* libcanard's receive side asked for
Side(b) == b[1]

\* the call counts an instrumented allocator adapter would show
AllocCalls == alloc_count.tx + alloc_count.rx
FreeCalls == free_count.tx + free_count.rx

\* memory_allocate: o1heapAllocate handed out block b
memory_allocate(b) ==
    /\ heap' = heap \cup {b}
    /\ alloc_count' = [alloc_count EXCEPT ![Side(b)] = @ + 1]
    /\ UNCHANGED <<free_count, heap_fault>>

\* memory_free: o1heapFree(b); freeing a block that is not live is recorded
memory_free(b) ==
    /\ heap' = heap \ {b}
    /\ free_count' = [free_count EXCEPT ![Side(b)] = @ + 1]
    /\ heap_fault' = (heap_fault \/ b \notin heap)
    /\ UNCHANGED alloc_count

(* ------------------------- frames and conversions ---------------------- *)
\* The CanardFrame libcanard queues for frame idx of n of transfer number tr.
\* The CAN id carries the priority; the payload carries the frame's position
\* in the transfer and the transfer id (libcanard's tail byte).
TxFrame(tr, idx, n, xfer) ==
    [extended_can_id |-> <<xfer.priority, xfer.transfer_kind, xfer.port_id>>,
     payload_size |-> 4,
     payload |-> <<tr, idx, n, xfer.transfer_id>>]

\* the o1heap block a queued CanardFrame lives in
TxBlock(f) == <<"tx", f.payload[1], f.payload[2]>>

FrTr(f) == f.payload[1]
FrIdx(f) == f.payload[2]
FrCount(f) == f.payload[3]

\* canard_to_freecanard_frame: id, length, and payload_size bytes of payload
canard_to_freecanard_frame(canardFrame) ==
    [id |-> canardFrame.extended_can_id,
     data_len |-> canardFrame.payload_size,
     data |-> SubSeq(canardFrame.payload, 1, canardFrame.payload_size)]

\* freecanard_to_canard_frame: the CanardFrame view of a received frame; the
\* timestamp is not set by the conversion
freecanard_to_canard_frame(freecanardFrame) ==
    [extended_can_id |-> freecanardFrame.id,
     payload_size |-> freecanardFrame.data_len,
     payload |-> freecanardFrame.data,
     timestamp_usec |-> NULL]

(* ------------------------------ transmit ------------------------------- *)
TransmitBegin(t, kind) ==
    /\ pc[t] = "idle"
    /\ budget.tx > 0
    /\ \E prio \in Priorities, len \in PayloadLens, port \in PortIds, dest \in DestNodes :
          call' = [call EXCEPT ![t] =
                      [op |-> "transmit", kind |-> kind, priority |-> prio,
                       payload_len |-> len, port_id |-> port,
                       remote_node_id |-> IF kind = "Message"
                                          THEN CANARD_NODE_ID_UNSET ELSE dest,
                       tr |-> budget.tx, pre |-> <<>>, pushed |-> 0,
                       nsent |-> 0, noffer |-> 0, busy |-> FALSE]]
    /\ budget' = [budget EXCEPT !.tx = @ - 1]
    /\ pc' = [pc EXCEPT ![t] = "tx_take"]
    /\ UNCHANGED <<mutex, transfer, txf, ret, transfer_id, txq, subs, rx_held,
                   heap, alloc_count, free_count, heap_fault, mtu_bytes, setup, on_transfer_received_, queue_size, id_log, rxq,
                   queue_item, canard_frame, rx_transfer, now, tx_trace, in_log, proc_log>>

freecanard_transmit_subject(t) == TransmitBegin(t, "Message")
freecanard_transmit_request(t) == TransmitBegin(t, "Request")
freecanard_transmit_response(t) == TransmitBegin(t, "Response")

\* a counter wider than the caller's uint8_t
NextTransferId_wide(id) == id + 1

\* (*transfer_id)++ on a uint8_t
NextTransferId(id) == (id + 1) % TransferIdWidth

\* the CanardTransfer local is filled in; of transfer_id = (*transfer_id)++
\* the read of the caller's counter into the transfer
TxPrep(t) ==
    /\ pc[t] = "tx_prep"
    /\ pc' = [pc EXCEPT ![t] = "tx_store"]
    /\ transfer' = [transfer EXCEPT ![t] =
                       [timestamp_usec |-> freecanard_get_us,
                        priority |-> call[t].priority,
                        transfer_kind |-> call[t].kind,
                        port_id |-> call[t].port_id,
                        remote_node_id |-> call[t].remote_node_id,
                        transfer_id |-> transfer_id,
                        payload_size |-> call[t].payload_len]]
    /\ UNCHANGED <<mutex, txf, call, ret, transfer_id, txq, subs, rx_held, heap,
                   alloc_count, free_count, heap_fault, mtu_bytes, setup,
                   on_transfer_received_, queue_size, id_log, rxq, queue_item,
                   canard_frame, rx_transfer, now, budget, tx_trace, in_log, proc_log>>

\* of transfer_id = (*transfer_id)++ the write: the value that was read,
\* plus one, goes back into the caller's counter
TxStoreId(t) ==
    /\ pc[t] = "tx_store"
    /\ pc' = [pc EXCEPT ![t] = "tx_push"]
    /\ transfer_id' = NextTransferId(transfer[t].transfer_id)
    /\ id_log' = Append(id_log,
           [by |-> t, id |-> transfer[t].transfer_id,
            stored |-> NextTransferId(transfer[t].transfer_id)])
    /\ UNCHANGED <<mutex, transfer, txf, call, ret, txq, subs, rx_held, heap,
                   alloc_count, free_count, heap_fault, mtu_bytes, setup,
                   on_transfer_received_, queue_size, rxq, queue_item,
                   canard_frame, rx_transfer, now, budget, tx_trace, in_log, proc_log>>

\* frames a transfer of this payload length can be split into
FrameCounts(len) == IF len = 0 THEN {1} ELSE 1..MaxFrames

\* libcanard keeps the TX queue ordered by CAN id, lowest first: the
\* priority is the most significant field of the id, then a service ranks
\* after a message, a request after a response, then the port
KindRank(kind) ==
    CASE kind = "Message" -> 0
      [] kind = "Response" -> 1
      [] kind = "Request" -> 2

CanIdLeq(a, b) ==
    \/ a[1] < b[1]
    \/ a[1] = b[1] /\ KindRank(a[2]) < KindRank(b[2])
    \/ a[1] = b[1] /\ a[2] = b[2] /\ a[3] <= b[3]

\* new frames go behind every queued frame whose id is not above theirs
\* (first in, first out among equal ids)
InsertPos(q, id) == Cardinality({i \in 1..Len(q) : CanIdLeq(q[i].extended_can_id, id)})

TxQueueInsert(q, new) ==
    IF new = <<>> THEN q
    ELSE SubSeq(q, 1, InsertPos(q, new[1].extended_can_id)) \o new
         \o SubSeq(q, InsertPos(q, new[1].extended_can_id) + 1, Len(q))

\* a push that, when the allocator gives out after j frames, leaves these j
\* frames in the queue
canardTxPush_partial(t) ==
    \E n \in FrameCounts(transfer[t].payload_size) :
      \/ LET new == [i \in 1..n |-> TxFrame(call[t].tr, i, n, transfer[t])]
         IN  /\ txq' = TxQueueInsert(txq, new)
             /\ heap' = heap \cup {TxBlock(f) : f \in Range(new)}
             /\ alloc_count' = [alloc_count EXCEPT !.tx = @ + n]
             /\ UNCHANGED <<free_count, heap_fault>>
             /\ call' = [call EXCEPT ![t].pre = txq, ![t].pushed = n]
      \/ \E j \in 0..(n - 1) :
             LET new == [i \in 1..j |-> TxFrame(call[t].tr, i, n, transfer[t])]
             IN  /\ txq' = TxQueueInsert(txq, new)
                 /\ heap' = heap \cup {TxBlock(f) : f \in Range(new)}
                 /\ alloc_count' = [alloc_count EXCEPT !.tx = @ + j]
                 /\ UNCHANGED <<free_count, heap_fault>>
                 /\ call' = [call EXCEPT ![t].pre = txq, ![t].pushed = 0]

\* canardTxPush(ins, transfer): either n frames are allocated and queued, or
\* the push fails (allocator exhausted after j frames, which libcanard frees
\* again; invalid arguments: j = 0) and the queue is unchanged.  The result
\* is not looked at by the caller.
canardTxPush(t) ==
    \E n \in FrameCounts(transfer[t].payload_size) :
      \/ LET new == [i \in 1..n |-> TxFrame(call[t].tr, i, n, transfer[t])]
         IN  /\ txq' = TxQueueInsert(txq, new)
             /\ heap' = heap \cup {TxBlock(f) : f \in Range(new)}
             /\ alloc_count' = [alloc_count EXCEPT !.tx = @ + n]
             /\ UNCHANGED <<free_count, heap_fault>>
             /\ call' = [call EXCEPT ![t].pre = txq, ![t].pushed = n]
      \/ \E j \in 0..(n - 1) :
             /\ alloc_count' = [alloc_count EXCEPT !.tx = @ + j]
             /\ free_count' = [free_count EXCEPT !.tx = @ + j]
             /\ UNCHANGED <<txq, heap, heap_fault>>
             /\ call' = [call EXCEPT ![t].pre = txq, ![t].pushed = 0]

TxPush(t) ==
    /\ pc[t] = "tx_push"
    /\ canardTxPush(t)
    /\ pc' = [pc EXCEPT ![t] = "tx_peek"]
    /\ UNCHANGED <<mutex, transfer, txf, ret, transfer_id, subs, rx_held,
                   mtu_bytes, setup, on_transfer_received_, queue_size, id_log, rxq, queue_item, canard_frame, rx_transfer, now,
                   budget, tx_trace, in_log, proc_log>>

\* for (txf = NULL; (txf = canardTxPeek(ins)) != NULL;)
TxPeek(t) ==
    /\ pc[t] = "tx_peek"
    /\ pc' = [pc EXCEPT ![t] = IF txq = <<>> THEN "tx_give" ELSE "tx_send"]
    /\ txf' = [txf EXCEPT ![t] = IF txq = <<>> THEN NoObject ELSE Head(txq)]
    /\ UNCHANGED <<mutex, transfer, call, ret, transfer_id, txq, subs, rx_held,
                   heap, alloc_count, free_count, heap_fault, mtu_bytes, setup, on_transfer_received_, queue_size, id_log, rxq,
                   queue_item, canard_frame, rx_transfer, now, budget,
                   tx_trace, in_log, proc_log>>

\* bool can_fd = ins->mtu_bytes == CANARD_MTU_CAN_FD ? true : false;
CanFd == (mtu_bytes = CANARD_MTU_CAN_FD)

\* a drain loop that goes on to pop and free whatever platform_send returned
AfterSend_ignore_result(res) == "tx_pop"

\* a drain loop that offers the frame again when the link is busy
AfterSend_retry(res) == IF res # 0 THEN "tx_send" ELSE "tx_pop"

\* if (res) break;
AfterSend(res) == IF res # 0 THEN "tx_give" ELSE "tx_pop"

\* canard_to_freecanard_frame(txf, &frame); res = platform_send_(&frame, can_fd)
TxSend(t) ==
    /\ pc[t] = "tx_send"
    /\ \E res \in SendResults :
          /\ tx_trace' = Append(tx_trace,
                 [ev |-> "send", by |-> t, txf |-> txf[t],
                  frame |-> canard_to_freecanard_frame(txf[t]),
                  can_fd |-> CanFd, res |-> res])
          /\ pc' = [pc EXCEPT ![t] = AfterSend(res)]
          /\ call' = [call EXCEPT ![t].noffer = @ + 1,
                                  ![t].nsent = IF res = 0 THEN @ + 1 ELSE @,
                                  ![t].busy = (res # 0)]
    /\ UNCHANGED <<mutex, transfer, txf, ret, transfer_id, txq, subs, rx_held,
                   heap, alloc_count, free_count, heap_fault, mtu_bytes, setup, on_transfer_received_, queue_size, id_log, rxq,
                   queue_item, canard_frame, rx_transfer, now, budget, in_log, proc_log>>

\* a pop that leaves the head of the TX queue where it is
canardTxPop_keep(q) == q

\* canardTxPop(ins): removes the head of the TX queue
canardTxPop(q) == IF q = <<>> THEN q ELSE Tail(q)

TxPop(t) ==
    /\ pc[t] = "tx_pop"
    /\ txq' = canardTxPop(txq)
    /\ tx_trace' = Append(tx_trace,
           [ev |-> "pop", by |-> t, txf |-> IF txq = <<>> THEN NoObject ELSE Head(txq)])
    /\ pc' = [pc EXCEPT ![t] = "tx_free"]
    /\ UNCHANGED <<mutex, transfer, txf, call, ret, transfer_id, subs, rx_held,
                   heap, alloc_count, free_count, heap_fault, mtu_bytes, setup, on_transfer_received_, queue_size, id_log, rxq,
                   queue_item, canard_frame, rx_transfer, now, budget, in_log, proc_log>>

\* a drain loop that forgets to give the frame back to the allocator
DrainFree_leak(t) == UNCHANGED heapVars

\* ins->memory_free(ins, (CanardFrame *)txf);
DrainFree(t) == memory_free(TxBlock(txf[t]))

TxFree(t) ==
    /\ pc[t] = "tx_free"
    /\ DrainFree(t)
    /\ tx_trace' = Append(tx_trace, [ev |-> "free", by |-> t, txf |-> txf[t]])
    /\ pc' = [pc EXCEPT ![t] = "tx_peek"]
    /\ UNCHANGED <<mutex, transfer, txf, call, ret, transfer_id, txq, subs,
                   rx_held, mtu_bytes, setup, on_transfer_received_, queue_size, id_log, rxq, queue_item, canard_frame,
                   rx_transfer, now, budget, in_log, proc_log>>

\* freecanard_give_mutex(&cookie->mutex_); the transmit functions return void
TxGive(t) ==
    /\ pc[t] = "tx_give"
    /\ freecanard_give_mutex(t)
    /\ pc' = [pc EXCEPT ![t] = "idle"]
    /\ ret' = [ret EXCEPT ![t] = Void]
    /\ call' = [call EXCEPT ![t] = NoCall]
    /\ transfer' = [transfer EXCEPT ![t] = NoObject]
    /\ txf' = [txf EXCEPT ![t] = NoObject]
    /\ UNCHANGED <<transfer_id, txq, subs, rx_held, heap, alloc_count,
                   free_count, heap_fault, mtu_bytes, setup, on_transfer_received_, queue_size, id_log, rxq, queue_item,
                   canard_frame, rx_transfer, now, budget, tx_trace, in_log, proc_log>>

(* ------------------------ subscribe / unsubscribe ---------------------- *)
freecanard_subscribe(t) ==
    /\ pc[t] = "idle"
    /\ budget.sub > 0
    /\ \E port \in PortIds :
          call' = [call EXCEPT ![t] = [op |-> "subscribe", port_id |-> port, res |-> 0]]
    /\ budget' = [budget EXCEPT !.sub = @ - 1]
    /\ pc' = [pc EXCEPT ![t] = "sub_take"]
    /\ UNCHANGED <<mutex, transfer, txf, ret, transfer_id, txq, subs, rx_held,
                   heap, alloc_count, free_count, heap_fault, mtu_bytes, setup, on_transfer_received_, queue_size, id_log, rxq,
                   queue_item, canard_frame, rx_transfer, now, tx_trace, in_log, proc_log>>

\* canardRxSubscribe: 1 when the subscription is new, 0 when it replaces one
\* (the replaced subscription's sessions are freed)
SubBody(t) ==
    /\ pc[t] = "sub_body"
    /\ subs' = subs \cup {call[t].port_id}
    /\ call' = [call EXCEPT ![t].res = IF call[t].port_id \in subs THEN 0 ELSE 1]
    /\ heap' = heap \ rx_held
    /\ free_count' = [free_count EXCEPT !.rx = @ + Cardinality(rx_held)]
    /\ rx_held' = {}
    /\ pc' = [pc EXCEPT ![t] = "sub_give"]
    /\ UNCHANGED <<mutex, transfer, txf, ret, transfer_id, txq, alloc_count,
                   heap_fault, mtu_bytes, setup, on_transfer_received_, queue_size, id_log, rxq, queue_item, canard_frame,
                   rx_transfer, now, budget, tx_trace, in_log, proc_log>>

freecanard_unsubscribe(t) ==
    /\ pc[t] = "idle"
    /\ budget.sub > 0
    /\ \E port \in PortIds :
          call' = [call EXCEPT ![t] = [op |-> "unsubscribe", port_id |-> port, res |-> 0]]
    /\ budget' = [budget EXCEPT !.sub = @ - 1]
    /\ pc' = [pc EXCEPT ![t] = "unsub_take"]
    /\ UNCHANGED <<mutex, transfer, txf, ret, transfer_id, txq, subs, rx_held,
                   heap, alloc_count, free_count, heap_fault, mtu_bytes, setup, on_transfer_received_, queue_size, id_log, rxq,
                   queue_item, canard_frame, rx_transfer, now, tx_trace, in_log, proc_log>>

\* canardRxUnsubscribe: 1 when a subscription was removed (its sessions are
\* freed), 0 when there was none
UnsubBody(t) ==
    /\ pc[t] = "unsub_body"
    /\ subs' = subs \ {call[t].port_id}
    /\ call' = [call EXCEPT ![t].res = IF call[t].port_id \in subs THEN 1 ELSE 0]
    /\ heap' = heap \ rx_held
    /\ free_count' = [free_count EXCEPT !.rx = @ + Cardinality(rx_held)]
    /\ rx_held' = {}
    /\ pc' = [pc EXCEPT ![t] = "sub_give"]
    /\ UNCHANGED <<mutex, transfer, txf, ret, transfer_id, txq, alloc_count,
                   heap_fault, mtu_bytes, setup, on_transfer_received_, queue_size, id_log, rxq, queue_item, canard_frame,
                   rx_transfer, now, budget, tx_trace, in_log, proc_log>>

\* freecanard_give_mutex(&cookie->mutex_); return res;
SubGive(t) ==
    /\ pc[t] = "sub_give"
    /\ freecanard_give_mutex(t)
    /\ pc' = [pc EXCEPT ![t] = "idle"]
    /\ ret' = [ret EXCEPT ![t] = [value |-> call[t].res]]
    /\ call' = [call EXCEPT ![t] = NoCall]
    /\ UNCHANGED <<transfer, txf, transfer_id, txq, subs, rx_held, heap,
                   alloc_count, free_count, heap_fault, mtu_bytes, setup, on_transfer_received_, queue_size, id_log, rxq,
                   queue_item, canard_frame, rx_transfer, now, budget,
                   tx_trace, in_log, proc_log>>

(* ------------------------------ ingestion ------------------------------ *)
\* the item the ISR entry point builds: { .frame_ = *frame,
\* .redundant_transport_index_ = redundant_transport_index }
IsrQueueItem(frame, index) ==
    [frame_ |-> frame, redundant_transport_index_ |-> index]

\* the item the task entry point queues: xQueueSendToBack is handed the
\* caller's frame pointer and copies sizeof(freecanard_frame_queue_item_t)
\* bytes from it, so the index byte is whatever lies behind the caller's
\* frame (beyond), not the redundant_transport_index argument
TaskQueueItem(frame, index, beyond) ==
    [frame_ |-> frame, redundant_transport_index_ |-> beyond]

\* an enqueue that puts the item in front of the queued ones
xQueueSendToFrontFromISR(q, item) ==
    IF Len(q) < queue_size THEN <<item>> \o q ELSE q

\* an enqueue that overwrites the newest item when the queue is full
xQueueOverwriteFromISR(q, item) ==
    IF Len(q) < queue_size THEN Append(q, item)
    ELSE Append(SubSeq(q, 1, Len(q) - 1), item)

\* xQueueSendToBackFromISR: the item is copied behind the queued ones, or
\* (queue full) nothing is done; it never waits
xQueueSendToBackFromISR(q, item) ==
    IF Len(q) < queue_size THEN Append(q, item) ELSE q

\* an ISR entry point that waits for room instead of dropping
IsrRoom_wait(q) == Len(q) < queue_size

\* the ISR entry point is not held up by the queue, whatever it holds
IsrRoom(q) == TRUE

\* freecanard_process_received_frame_from_ISR: runs to completion; the
\* result of xQueueSendToBackFromISR is not looked at and nothing is returned
freecanard_process_received_frame_from_ISR ==
    /\ budget.rx > 0
    /\ IsrRoom(rxq)
    /\ \E id \in FrameIds, index \in TransportIdx :
          LET frame == RxFrame(budget.rx, id)
              item == IsrQueueItem(frame, index)
          IN  /\ rxq' = xQueueSendToBackFromISR(rxq, item)
              /\ in_log' = Append(in_log,
                     [ev |-> IF Len(rxq) < queue_size THEN "enq" ELSE "drop",
                      by |-> IsrCtx, frame |-> frame, index |-> index,
                      timeout |-> 0, called |-> now, done |-> now,
                      ret |-> "void", item |-> item])
    /\ ret' = [ret EXCEPT ![IsrCtx] = Void]
    /\ budget' = [budget EXCEPT !.rx = @ - 1]
    /\ UNCHANGED <<mutex, pc, transfer, txf, call, transfer_id, txq, subs,
                   rx_held, heap, alloc_count, free_count, heap_fault,
                   mtu_bytes, setup, on_transfer_received_, queue_size, id_log, queue_item,
                   canard_frame, rx_transfer, now, tx_trace, proc_log>>

\* the timeout handed to xQueueSendToBack by a caller that always waits
QueueSendTimeout_forever(timeout) == budget.tick + 1

\* xQueueSendToBack(cookie->processing_task_queue_, frame, timeout)
QueueSendTimeout(timeout) == timeout

\* freecanard_process_received_frame: with room in the queue the item is
\* copied at once; with a full queue and no time to wait the call returns at
\* once; otherwise the caller blocks.  Nothing is returned.
freecanard_process_received_frame(t) ==
    /\ pc[t] = "idle"
    /\ budget.rx > 0
    /\ budget' = [budget EXCEPT !.rx = @ - 1]
    /\ \E id \in FrameIds, index \in TransportIdx, timeout \in 0..MaxTimeout :
          LET frame == RxFrame(budget.rx, id) IN
          IF Len(rxq) < queue_size
          THEN \E beyond \in TransportIdx :
               /\ rxq' = Append(rxq, TaskQueueItem(frame, index, beyond))
               /\ in_log' = Append(in_log,
                      [ev |-> "enq", by |-> t, frame |-> frame,
                       index |-> index, timeout |-> timeout,
                       called |-> now, done |-> now, ret |-> "void",
                       item |-> TaskQueueItem(frame, index, beyond)])
               /\ ret' = [ret EXCEPT ![t] = Void]
               /\ UNCHANGED <<pc, call>>
          ELSE IF QueueSendTimeout(timeout) = 0
          THEN /\ in_log' = Append(in_log,
                      [ev |-> "drop", by |-> t, frame |-> frame,
                       index |-> index, timeout |-> timeout,
                       called |-> now, done |-> now, ret |-> "void",
                       item |-> NoObject])
               /\ ret' = [ret EXCEPT ![t] = Void]
               /\ UNCHANGED <<pc, call, rxq>>
          ELSE /\ call' = [call EXCEPT ![t] =
                      [op |-> "ingest", frame |-> frame, index |-> index,
                       timeout |-> timeout, called |-> now,
                       deadline |-> now + QueueSendTimeout(timeout)]]
               /\ pc' = [pc EXCEPT ![t] = "q_wait"]
               /\ UNCHANGED <<rxq, in_log, ret>>
    /\ UNCHANGED <<mutex, transfer, txf, transfer_id, txq, subs, rx_held, heap,
                   alloc_count, free_count, heap_fault, mtu_bytes, setup,
                   on_transfer_received_, queue_size, id_log, queue_item, canard_frame,
                   rx_transfer, now, tx_trace, proc_log>>

\* the blocked xQueueSendToBack finds room: the item is copied, the call returns
QueueSendWake(t) ==
    /\ pc[t] = "q_wait"
    /\ Len(rxq) < queue_size
    /\ \E beyond \in TransportIdx :
          /\ rxq' = Append(rxq, TaskQueueItem(call[t].frame, call[t].index, beyond))
          /\ in_log' = Append(in_log,
                 [ev |-> "enq", by |-> t, frame |-> call[t].frame,
                  index |-> call[t].index, timeout |-> call[t].timeout,
                  called |-> call[t].called, done |-> now, ret |-> "void",
                  item |-> TaskQueueItem(call[t].frame, call[t].index, beyond)])
    /\ pc' = [pc EXCEPT ![t] = "idle"]
    /\ ret' = [ret EXCEPT ![t] = Void]
    /\ call' = [call EXCEPT ![t] = NoCall]
    /\ UNCHANGED <<mutex, transfer, txf, transfer_id, txq, subs, rx_held, heap,
                   alloc_count, free_count, heap_fault, mtu_bytes, setup,
                   on_transfer_received_, queue_size, id_log, queue_item, canard_frame,
                   rx_transfer, now, budget, tx_trace, proc_log>>

\* the blocked xQueueSendToBack runs out of time: nothing is queued, the
\* call returns
QueueSendTimedOut(t) ==
    /\ pc[t] = "q_wait"
    /\ Len(rxq) >= queue_size
    /\ now >= call[t].deadline
    /\ in_log' = Append(in_log,
           [ev |-> "drop", by |-> t, frame |-> call[t].frame,
            index |-> call[t].index, timeout |-> call[t].timeout,
            called |-> call[t].called, done |-> now, ret |-> "void",
            item |-> NoObject])
    /\ pc' = [pc EXCEPT ![t] = "idle"]
    /\ ret' = [ret EXCEPT ![t] = Void]
    /\ call' = [call EXCEPT ![t] = NoCall]
    /\ UNCHANGED <<mutex, transfer, txf, transfer_id, txq, subs, rx_held, heap,
                   alloc_count, free_count, heap_fault, mtu_bytes, setup,
                   on_transfer_received_, queue_size, id_log, rxq, queue_item,
                   canard_frame, rx_transfer, now, budget, tx_trace, proc_log>>

\* the tick interrupt; the scheduler wakes a task whose block time has
\* expired before the tick count moves past its deadline
Tick ==
    /\ budget.tick > 0
    /\ \A t \in Tasks : pc[t] = "q_wait" => now < call[t].deadline
    /\ now' = now + 1
    /\ budget' = [budget EXCEPT !.tick = @ - 1]
    /\ UNCHANGED <<mutex, pc, transfer, txf, call, ret, transfer_id, txq, subs,
                   rx_held, heap, alloc_count, free_count, heap_fault,
                   mtu_bytes, setup, on_transfer_received_, queue_size, id_log, rxq, queue_item,
                   canard_frame, rx_transfer, tx_trace, in_log, proc_log>>

(* --------------------------- processing task --------------------------- *)
\* xQueueReceive(cookie->processing_task_queue_, &queue_item, portMAX_DELAY)
ProcReceive ==
    /\ pc[ProcTask] = "recv"
    /\ setup.cookie = "cookie"
    /\ rxq # <<>>
    /\ queue_item' = Head(rxq)
    /\ rxq' = Tail(rxq)
    /\ proc_log' = Append(proc_log, [ev |-> "deq", item |-> Head(rxq)])
    /\ pc' = [pc EXCEPT ![ProcTask] = "stamp"]
    /\ UNCHANGED <<mutex, transfer, txf, call, ret, transfer_id, txq, subs,
                   rx_held, heap, alloc_count, free_count, heap_fault,
                   mtu_bytes, setup, on_transfer_received_, queue_size, id_log, canard_frame, rx_transfer,
                   now, budget, tx_trace, in_log>>

\* freecanard_to_canard_frame(&queue_item.frame_, &canard_frame);
\* canard_frame.timestamp_usec = freecanard_get_us();
ProcStamp ==
    /\ pc[ProcTask] = "stamp"
    /\ canard_frame' = [freecanard_to_canard_frame(queue_item.frame_)
                           EXCEPT !.timestamp_usec = freecanard_get_us]
    /\ pc' = [pc EXCEPT ![ProcTask] = "acc_take"]
    /\ UNCHANGED <<mutex, transfer, txf, call, ret, transfer_id, txq, subs,
                   rx_held, heap, alloc_count, free_count, heap_fault,
                   mtu_bytes, setup, on_transfer_received_, queue_size, id_log, rxq, queue_item,
                   rx_transfer, now, budget, tx_trace, in_log, proc_log>>

\* the block the next allocation made for the receive side returns
RxBlock == <<"rx", alloc_count.rx, 0>>

\* canardRxAccept(ins, &canard_frame, index, &transfer).  A frame of a port
\* nobody subscribed to is ignored (0).  Otherwise libcanard reports an
\* error (negative), takes the frame into a session it may have to allocate
\* (0), or completes a transfer (1) whose payload is a block the
\* application side has to free.
canardRxAccept(res) ==
    IF canard_frame.extended_can_id \notin subs
    THEN /\ res = 0
         /\ UNCHANGED <<rx_held, heap, alloc_count, free_count, heap_fault, rx_transfer>>
    ELSE \/ /\ res = AcceptError
            /\ UNCHANGED <<rx_held, heap, alloc_count, free_count, heap_fault, rx_transfer>>
         \/ /\ res = 0
            /\ UNCHANGED <<rx_held, heap, alloc_count, free_count, heap_fault, rx_transfer>>
         \/ /\ res = 0
            /\ rx_held = {}
            /\ rx_held' = {RxBlock}
            /\ memory_allocate(RxBlock)
            /\ UNCHANGED rx_transfer
         \/ /\ res = 1
            /\ rx_held = {}
            /\ memory_allocate(RxBlock)
            /\ rx_transfer' = [timestamp_usec |-> canard_frame.timestamp_usec,
                               port_id |-> canard_frame.extended_can_id,
                               payload |-> RxBlock]
            /\ UNCHANGED rx_held
         \/ /\ res = 1
            /\ rx_held # {}
            /\ \E b \in rx_held :
                  /\ rx_held' = rx_held \ {b}
                  /\ rx_transfer' = [timestamp_usec |-> canard_frame.timestamp_usec,
                                     port_id |-> canard_frame.extended_can_id,
                                     payload |-> b]
            /\ UNCHANGED <<heap, alloc_count, free_count, heap_fault>>

\* a processing task that goes on to the callback whatever canardRxAccept
\* returned
AfterAccept_any(res) == "acc_callback"

\* a processing task that goes back to xQueueReceive without giving the
\* mutex when canardRxAccept completed no transfer
AfterAccept_keep_mutex(res) == IF res = 1 THEN "acc_callback" ELSE "recv"

\* if (res == 1) { callback, free } else { give, continue }
AfterAccept(res) == IF res = 1 THEN "acc_callback" ELSE "acc_give_err"

ProcAccept ==
    /\ pc[ProcTask] = "acc_accept"
    /\ \E res \in {AcceptError, 0, 1} :
          /\ canardRxAccept(res)
          /\ proc_log' = Append(proc_log,
                 [ev |-> "accept", frame |-> canard_frame,
                  index |-> queue_item.redundant_transport_index_, res |-> res,
                  holder |-> mutex])
          /\ pc' = [pc EXCEPT ![ProcTask] = AfterAccept(res)]
    /\ UNCHANGED <<mutex, transfer, txf, call, ret, transfer_id, txq, subs,
                   mtu_bytes, setup, on_transfer_received_, queue_size, id_log, rxq, queue_item,
                   canard_frame, now, budget, tx_trace, in_log>>

\* callbacks that call subscribe, unsubscribe or a transmit function on the
\* instance they are handed
ReentrantCallbacks == {"on_transfer_received_calls_back"}

\* where the processing task is after cookie->on_transfer_received_(ins,
\* &transfer): past it, or inside it at the take of the operation it calls
AfterCallback ==
    IF on_transfer_received_ \in ReentrantCallbacks THEN "cb_take" ELSE "acc_free"

\* if (cookie->on_transfer_received_) cookie->on_transfer_received_(ins, &transfer);
ProcCallback ==
    /\ pc[ProcTask] = "acc_callback"
    /\ proc_log' = IF on_transfer_received_ # NULL
                   THEN Append(proc_log, [ev |-> "callback", transfer |-> rx_transfer,
                                          holder |-> mutex])
                   ELSE proc_log
    /\ pc' = [pc EXCEPT ![ProcTask] = AfterCallback]
    /\ UNCHANGED <<mutex, transfer, txf, call, ret, transfer_id, txq, subs,
                   rx_held, heap, alloc_count, free_count, heap_fault,
                   mtu_bytes, setup, on_transfer_received_, queue_size, id_log, rxq, queue_item,
                   canard_frame, rx_transfer, now, budget, tx_trace, in_log>>

\* ins->memory_free(ins, (void *)transfer.payload);
ProcFreePayload ==
    /\ pc[ProcTask] = "acc_free"
    /\ memory_free(rx_transfer.payload)
    /\ proc_log' = Append(proc_log, [ev |-> "free_payload", block |-> rx_transfer.payload,
                                     holder |-> mutex])
    /\ pc' = [pc EXCEPT ![ProcTask] = "acc_give"]
    /\ UNCHANGED <<mutex, transfer, txf, call, ret, transfer_id, txq, subs,
                   rx_held, mtu_bytes, setup, on_transfer_received_, queue_size, id_log, rxq, queue_item,
                   canard_frame, rx_transfer, now, budget, tx_trace, in_log>>

\* a processing task that takes the head off the send queue at the end of
\* every iteration
ProcGive_drain ==
    /\ pc[ProcTask] \in {"acc_give", "acc_give_err"}
    /\ freecanard_give_mutex(ProcTask)
    /\ pc' = [pc EXCEPT ![ProcTask] = "recv"]
    /\ queue_item' = NoObject
    /\ canard_frame' = NoObject
    /\ rx_transfer' = NoObject
    /\ txq' = canardTxPop(txq)
    /\ UNCHANGED <<transfer, txf, call, ret, transfer_id, subs, rx_held,
                   heap, alloc_count, free_count, heap_fault, mtu_bytes, setup,
                   on_transfer_received_, queue_size, id_log, rxq, now, budget, tx_trace, in_log, proc_log>>

\* freecanard_give_mutex(&cookie->mutex_); on both branches, then the loop
\* goes back to xQueueReceive
ProcGive ==
    /\ pc[ProcTask] \in {"acc_give", "acc_give_err"}
    /\ freecanard_give_mutex(ProcTask)
    /\ pc' = [pc EXCEPT ![ProcTask] = "recv"]
    /\ queue_item' = NoObject
    /\ canard_frame' = NoObject
    /\ rx_transfer' = NoObject
    /\ UNCHANGED <<transfer, txf, call, ret, transfer_id, txq, subs, rx_held,
                   heap, alloc_count, free_count, heap_fault, mtu_bytes, setup,
                   on_transfer_received_, queue_size, id_log, rxq, now, budget, tx_trace, in_log, proc_log>>

(* ---------------------------- freecanard_init -------------------------- *)
\* what freecanard_init leaves behind when everything it calls succeeds and
\* the processing task first runs after it has returned
SetupDone ==
    [pc |-> "done", mutex_ |-> "handle", processing_task_queue_ |-> "handle",
     o1heap_ |-> "handle", ins |-> "init", user_reference |-> "cookie",
     cookie |-> "cookie", read_at |-> "cookie"]

\* the caller's storage before freecanard_init: nothing is initialised
SetupNone ==
    [pc |-> "create", mutex_ |-> "uninit", processing_task_queue_ |-> "uninit",
     o1heap_ |-> "uninit", ins |-> "uninit", user_reference |-> "uninit",
     cookie |-> "unread", read_at |-> "never"]

\* values a read of a pointer yields: an uninitialised one may hold anything
PointerRead(p) == IF p = "uninit" THEN {"cookie", NULL, "wild"} ELSE {p}

\* what xSemaphoreCreateMutex returns: a handle, or NULL when the FreeRTOS
\* heap is exhausted
MutexCreated == {"handle", NULL}

\* cookie->mutex_ = xSemaphoreCreateMutex(); (the result is not looked at)
\* cookie->processing_task_queue_ = xQueueCreate(...); platform_send_ and
\* on_transfer_received_ are stored
InitCreate ==
    /\ setup.pc = "create"
    /\ \E m \in MutexCreated :
          setup' = [setup EXCEPT !.pc = "task", !.mutex_ = m,
                                 !.processing_task_queue_ = "handle"]
    /\ on_transfer_received_' = "on_transfer_received"
    /\ queue_size' = QueueCap
    /\ UNCHANGED <<mutex, pc, transfer, txf, call, ret, transfer_id, txq, subs,
                   rx_held, heap, alloc_count, free_count, heap_fault,
                   mtu_bytes, rxq, queue_item, canard_frame, rx_transfer, now,
                   budget, tx_trace, in_log, proc_log, id_log>>

\* xTaskCreate(freecanard_processing_task, ..., (void *)ins, priority, NULL):
\* from here on the processing task may run whenever the scheduler picks it
InitTaskCreate ==
    /\ setup.pc = "task"
    /\ setup' = [setup EXCEPT !.pc = "take"]
    /\ pc' = [pc EXCEPT ![ProcTask] = "start"]
    /\ UNCHANGED <<mutex, transfer, txf, call, ret, transfer_id, txq, subs,
                   rx_held, heap, alloc_count, free_count, heap_fault,
                   mtu_bytes, on_transfer_received_, queue_size, id_log, rxq,
                   queue_item, canard_frame, rx_transfer, now, budget,
                   tx_trace, in_log, proc_log>>

\* xSemaphoreTake(NULL, portMAX_DELAY) is undefined: the build may stop there
\* (configASSERT, a fault) or read whatever is at address 0 and return
InitAfterNullTake == {"halted", "heap"}

\* freecanard_take_mutex(&cookie->mutex_);
InitTake ==
    /\ setup.pc = "take"
    /\ \/ /\ setup.mutex_ = "handle"
          /\ mutex = NoThread
          /\ mutex' = InitCtx
          /\ setup' = [setup EXCEPT !.pc = "heap"]
       \/ /\ setup.mutex_ = NULL
          /\ \E p \in InitAfterNullTake : setup' = [setup EXCEPT !.pc = p]
          /\ UNCHANGED mutex
    /\ UNCHANGED <<pc, transfer, txf, call, ret, transfer_id, txq, subs,
                   rx_held, heap, alloc_count, free_count, heap_fault,
                   mtu_bytes, on_transfer_received_, queue_size, id_log, rxq,
                   queue_item, canard_frame, rx_transfer, now, budget,
                   tx_trace, in_log, proc_log>>

\* cookie->o1heap_ = o1heapInit(memory_pool, memory_pool_size, NULL, NULL);
InitHeap ==
    /\ setup.pc = "heap"
    /\ setup' = [setup EXCEPT !.pc = "canard", !.o1heap_ = "handle"]
    /\ UNCHANGED <<mutex, pc, transfer, txf, call, ret, transfer_id, txq, subs,
                   rx_held, heap, alloc_count, free_count, heap_fault,
                   mtu_bytes, on_transfer_received_, queue_size, id_log, rxq,
                   queue_item, canard_frame, rx_transfer, now, budget,
                   tx_trace, in_log, proc_log>>

\* *ins = canardInit(memory_allocate, memory_free): every field of the
\* instance gets its default, user_reference NULL and the MTU CAN FD
InitCanard ==
    /\ setup.pc = "canard"
    /\ setup' = [setup EXCEPT !.pc = "ref", !.ins = "init", !.user_reference = NULL]
    /\ mtu_bytes' = CANARD_MTU_CAN_FD
    /\ UNCHANGED <<mutex, pc, transfer, txf, call, ret, transfer_id, txq, subs,
                   rx_held, heap, alloc_count, free_count, heap_fault,
                   on_transfer_received_, queue_size, id_log, rxq, queue_item,
                   canard_frame, rx_transfer, now, budget, tx_trace, in_log,
                   proc_log>>

\* ins->node_id = canard_node_id; ins->user_reference = (void *)cookie;
InitRef ==
    /\ setup.pc = "ref"
    /\ setup' = [setup EXCEPT !.pc = "give", !.user_reference = "cookie"]
    /\ UNCHANGED <<mutex, pc, transfer, txf, call, ret, transfer_id, txq, subs,
                   rx_held, heap, alloc_count, free_count, heap_fault,
                   mtu_bytes, on_transfer_received_, queue_size, id_log, rxq,
                   queue_item, canard_frame, rx_transfer, now, budget,
                   tx_trace, in_log, proc_log>>

\* xSemaphoreGive(NULL) is undefined in the same way
InitAfterGive == IF setup.mutex_ = NULL THEN {"halted", "done"} ELSE {"done"}

\* freecanard_give_mutex(&cookie->mutex_); freecanard_init returns
InitGive ==
    /\ setup.pc = "give"
    /\ freecanard_give_mutex(InitCtx)
    /\ \E p \in InitAfterGive : setup' = [setup EXCEPT !.pc = p]
    /\ UNCHANGED <<pc, transfer, txf, call, ret, transfer_id, txq, subs,
                   rx_held, heap, alloc_count, free_count, heap_fault,
                   mtu_bytes, on_transfer_received_, queue_size, id_log, rxq,
                   queue_item, canard_frame, rx_transfer, now, budget,
                   tx_trace, in_log, proc_log>>

\* freecanard_processing_task, before its loop:
\* cookie = (freecanard_cookie_t *)ins->user_reference; no lock is held
ProcStart ==
    /\ pc[ProcTask] = "start"
    /\ \E c \in PointerRead(setup.user_reference) :
          setup' = [setup EXCEPT !.cookie = c, !.read_at = setup.user_reference]
    /\ pc' = [pc EXCEPT ![ProcTask] = "recv"]
    /\ UNCHANGED <<mutex, transfer, txf, call, ret, transfer_id, txq, subs,
                   rx_held, heap, alloc_count, free_count, heap_fault,
                   mtu_bytes, on_transfer_received_, queue_size, id_log, rxq,
                   queue_item, canard_frame, rx_transfer, now, budget,
                   tx_trace, in_log, proc_log>>

\* xQueueReceive(cookie->processing_task_queue_, ...) through a cookie
\* pointer that is not the cookie is undefined: the task may fault, or wait
\* for ever on whatever it takes for a queue (it stays where it is)
ProcWild ==
    /\ pc[ProcTask] = "recv"
    /\ setup.cookie # "cookie"
    /\ pc' = [pc EXCEPT ![ProcTask] = "fault"]
    /\ UNCHANGED <<mutex, transfer, txf, call, ret, transfer_id, txq, subs,
                   rx_held, heap, alloc_count, free_count, heap_fault,
                   mtu_bytes, setup, on_transfer_received_, queue_size, id_log, rxq,
                   queue_item, canard_frame, rx_transfer, now, budget,
                   tx_trace, in_log, proc_log>>

InitActions ==
    \/ InitCreate
    \/ InitTaskCreate
    \/ InitTake
    \/ InitHeap
    \/ InitCanard
    \/ InitRef
    \/ InitGive

(* --------------------------- specifications ---------------------------- *)
\* nothing queued, held or allocated and no call under way, with the calls
\* the environment may still make (tx transmit calls, rx ingestion calls,
\* sub (un)subscribe calls), the ticks that may still pass, the
\* subscriptions made so far, the value of the transfer-id counter and the
\* tick count
BlankAt(tx, rx, sub, tick, subscribed, tids, ticks) ==
    /\ mutex = NoThread
    /\ transfer = [t \in Tasks |-> NoObject]
    /\ txf = [t \in Tasks |-> NoObject]
    /\ call = [t \in Tasks |-> NoCall]
    /\ ret = [t \in Tasks \cup {IsrCtx} |-> NoObject]
    /\ transfer_id \in tids
    /\ txq = <<>>
    /\ subs \in subscribed
    /\ rx_held = {}
    /\ heap = {}
    /\ alloc_count = [tx |-> 0, rx |-> 0]
    /\ free_count = [tx |-> 0, rx |-> 0]
    /\ heap_fault = FALSE
    /\ rxq = <<>>
    /\ queue_item = NoObject
    /\ canard_frame = NoObject
    /\ rx_transfer = NoObject
    /\ now \in ticks
    /\ budget = [tx |-> tx, rx |-> rx, sub |-> sub, tick |-> tick]
    /\ tx_trace = <<>>
    /\ in_log = <<>>
    /\ proc_log = <<>>
    /\ id_log = <<>>

\* the same right after the scheduler was started
Blank(tx, rx, sub, tick, subscribed, tids) ==
    BlankAt(tx, rx, sub, tick, subscribed, tids, {0})

\* the state freecanard_init leaves behind, with the callback the
\* application has registered and the queue size it asked for
InitWith(tx, rx, sub, tick, subscribed, callbacks, tids, size) ==
    /\ Blank(tx, rx, sub, tick, subscribed, tids)
    /\ pc = [t \in Threads |-> IF t = ProcTask THEN "recv" ELSE "idle"]
    /\ mtu_bytes = CANARD_MTU_CAN_FD
    /\ setup = SetupDone
    /\ on_transfer_received_ \in callbacks
    /\ queue_size \in size

TxActions ==
    \/ \E t \in Tasks : freecanard_transmit_subject(t)
    \/ \E t \in Tasks : freecanard_transmit_request(t)
    \/ \E t \in Tasks : freecanard_transmit_response(t)
    \/ \E t \in Tasks : TxPrep(t)
    \/ \E t \in Tasks : TxStoreId(t)
    \/ \E t \in Tasks : TxPush(t)
    \/ \E t \in Tasks : TxPeek(t)
    \/ \E t \in Tasks : TxSend(t)
    \/ \E t \in Tasks : TxPop(t)
    \/ \E t \in Tasks : TxFree(t)
    \/ \E t \in Tasks : TxGive(t)

SubActions ==
    \/ \E t \in Tasks : freecanard_subscribe(t)
    \/ \E t \in Tasks : SubBody(t)
    \/ \E t \in Tasks : freecanard_unsubscribe(t)
    \/ \E t \in Tasks : UnsubBody(t)
    \/ \E t \in Tasks : SubGive(t)

ProcActions ==
    \/ ProcReceive
    \/ ProcStamp
    \/ ProcAccept
    \/ ProcCallback
    \/ ProcFreePayload
    \/ ProcGive

IngestActions ==
    \/ freecanard_process_received_frame_from_ISR
    \/ \E t \in Feeders : freecanard_process_received_frame(t)
    \/ \E t \in Feeders : QueueSendWake(t)

TimeActions ==
    \/ \E t \in Feeders : QueueSendTimedOut(t)
    \/ Tick

\* every operation that takes the mutex (transmit, subscribe, unsubscribe
\* and the processing task), fed with frames by both ingestion entry points
Init == InitWith(AllTxCalls, AllRxCalls, AllSubCalls, 0, {{}},
                 {"on_transfer_received"}, {0}, {AllQueueCap})
Next ==
    \/ \E t \in Threads : TakeMutex(t)
    \/ TxActions
    \/ SubActions
    \/ freecanard_process_received_frame_from_ISR
    \/ \E t \in Feeders : freecanard_process_received_frame(t)
    \/ ProcActions
Spec == Init /\ [][Next]_vars

\* transmit calls only, from several tasks
InitTx == InitWith(MaxTxCalls, 0, 0, 0, {{}}, {NULL},
                   {0, TransferIdWidth - 1}, {QueueCap})
NextTx == (\E t \in Threads : TakeMutex(t)) \/ TxActions
SpecTx == InitTx /\ [][NextTx]_vars

\* the statements of a transmit call that follow the taking of the mutex
TransmitStep(t) ==
    \/ TxPrep(t) \/ TxStoreId(t) \/ TxPush(t) \/ TxPeek(t) \/ TxSend(t)
    \/ TxPop(t) \/ TxFree(t) \/ TxGive(t)

\* transmit calls only, each calling task being scheduled again and again
\* and platform_send returning whenever it is called
SpecTxFair == SpecTx /\ \A t \in Tasks : WF_vars(TransmitStep(t))

\* both ingestion entry points and the processing task while no tick
\* passes, with and without a subscription, for two queue capacities
InitRx == InitWith(0, MaxRxCalls, 0, 0, {{}, PortIds},
                   {"on_transfer_received"}, {0}, {QueueCap, QueueCap + 1})
NextRx == (\E t \in Threads : TakeMutex(t)) \/ IngestActions \/ ProcActions
SpecRx == InitRx /\ [][NextRx]_vars

\* both ingestion entry points and the processing task with time passing:
\* blocked callers time out, frames wait in the queue over a tick
InitTime == InitWith(0, TimeRxCalls, 0, MaxTick, {PortIds},
                     {"on_transfer_received"}, {0}, {TimeQueueCap})
NextTime ==
    \/ \E t \in Threads : TakeMutex(t)
    \/ IngestActions
    \/ TimeActions
    \/ ProcActions
SpecTime == InitTime /\ [][NextTime]_vars

\* received frames that libcanard may refuse, with a transmit call beside
\* them; every thread is scheduled again and again, and a thread waiting
\* for the mutex gets it at some give (FreeRTOS hands a given mutex to a
\* task waiting for it)
InitDrop == InitWith(DropTxCalls, DropRxCalls, 0, 0, {PortIds},
                     {"on_transfer_received"}, {0}, {QueueCap})
NextDrop ==
    \/ \E t \in Threads : TakeMutex(t)
    \/ TxActions
    \/ freecanard_process_received_frame_from_ISR
    \/ ProcActions
SpecDrop ==
    /\ InitDrop /\ [][NextDrop]_vars
    /\ WF_vars(ProcActions)
    /\ \A t \in Tasks : WF_vars(TransmitStep(t))
    /\ \A t \in Threads : SF_vars(TakeMutex(t))

\* freecanard_init from blank storage, interleaved with the processing task
\* it creates; once the instance points to its cookie (and the mutex
\* exists) the interrupt handler may hand in a frame, and once
\* freecanard_init has returned the application may call subscribe,
\* unsubscribe and the transmit functions
InitBoot ==
    /\ Blank(BootTxCalls, BootRxCalls, BootSubCalls, 0, {{}}, {0})
    /\ pc = [t \in Threads |-> IF t = ProcTask THEN "unborn" ELSE "idle"]
    /\ mtu_bytes = 0
    /\ setup = SetupNone
    /\ on_transfer_received_ = NULL
    /\ queue_size = 0
Linked == setup.user_reference = "cookie" /\ setup.mutex_ = "handle"
Returned == setup.pc = "done" /\ setup.mutex_ = "handle"
NextBoot ==
    \/ InitActions
    \/ ProcStart
    \/ ProcWild
    \/ \E t \in Threads : TakeMutex(t)
    \/ ProcActions
    \/ Linked /\ freecanard_process_received_frame_from_ISR
    \/ Returned /\ TxActions
    \/ Returned /\ SubActions
SpecBoot == InitBoot /\ [][NextBoot]_vars

\* transmit calls on an instance whose MTU the application has set (libcanard
\* lets ins->mtu_bytes be any frame data length from classic CAN's to CAN FD's)
InitMtu ==
    /\ Blank(MtuTxCalls, 0, 0, 0, {{}}, {0})
    /\ pc = [t \in Threads |-> IF t = ProcTask THEN "recv" ELSE "idle"]
    /\ mtu_bytes \in MtuValues
    /\ setup = SetupDone
    /\ on_transfer_received_ = NULL
    /\ queue_size = QueueCap
SpecMtu == InitMtu /\ [][NextTx]_vars

\* the statements of a subscribe or unsubscribe call that follow the take
SubscribeStep(t) == SubBody(t) \/ UnsubBody(t) \/ SubGive(t)

\* received frames of a subscribed port, handed to a callback that returns
\* or to one that calls back into the adapter, while one task publishes
\* messages and another subscribes and unsubscribes; every thread is
\* scheduled again and again, and a thread waiting for the mutex gets it at
\* some give
InitCb == InitWith(CbTxCalls, CbRxCalls, CbSubCalls, 0, {PortIds},
                   {"on_transfer_received"} \cup ReentrantCallbacks, {0},
                   {QueueCap})
NextCb ==
    \/ \E t \in Threads : TakeMutex(t)
    \/ freecanard_transmit_subject(Publisher)
    \/ TransmitStep(Publisher)
    \/ freecanard_subscribe(Subscriber)
    \/ freecanard_unsubscribe(Subscriber)
    \/ SubscribeStep(Subscriber)
    \/ freecanard_process_received_frame_from_ISR
    \/ ProcActions
SpecCb ==
    /\ InitCb /\ [][NextCb]_vars
    /\ WF_vars(ProcActions)
    /\ WF_vars(TransmitStep(Publisher))
    /\ WF_vars(SubscribeStep(Subscriber))
    /\ \A t \in Threads : SF_vars(TakeMutex(t))

\* frames received a few seconds after the scheduler was started, when the
\* tick count is about to pass 2^32 / 10^6
InitUs ==
    /\ BlankAt(0, UsRxCalls, 0, UsTicks, {PortIds}, {0}, UsStartTicks)
    /\ pc = [t \in Threads |-> IF t = ProcTask THEN "recv" ELSE "idle"]
    /\ mtu_bytes = CANARD_MTU_CAN_FD
    /\ setup = SetupDone
    /\ on_transfer_received_ = "on_transfer_received"
    /\ queue_size = TimeQueueCap
SpecUs == InitUs /\ [][NextTime]_vars

(* ------------------------------ properties ---------------------------- *)
\* positions at which the next step of a thread touches the engine instance
\* or the allocator: canardTxPush, canardTxPeek, canardTxPop, memory_free of
\* a sent frame, canardRxSubscribe, canardRxUnsubscribe, canardRxAccept
\* (which allocates), memory_free of a received payload
EnginePcs == {"tx_push", "tx_peek", "tx_pop", "tx_free", "sub_body",
              "unsub_body", "acc_accept", "acc_free"}

\* C1: at most one thread at a time is about to execute a step that touches
\* the engine instance or the allocator, that thread is the holder of the
\* cookie's mutex, and every accept step that was executed was executed
\* with the processing task holding the mutex.
C1_EngineUnderMutex ==
    /\ \A t \in Threads : pc[t] \in EnginePcs => mutex = t
    /\ Cardinality({t \in Threads : pc[t] \in EnginePcs}) <= 1
    /\ \A i \in 1..Len(proc_log) :
          proc_log[i].ev \in {"accept", "free_payload"} => proc_log[i].holder = ProcTask

\* a task is inside the drain loop while the processing task, a frame in
\* hand, and another task, in a subscribe call, both wait for the mutex
C1_Contended ==
    /\ \E t \in Tasks : pc[t] \in {"tx_push", "tx_peek", "tx_pop", "tx_free"}
    /\ pc[ProcTask] = "acc_take"
    /\ \E t \in Tasks : pc[t] = "sub_take"

\* the frames a transmit call pushed, and the queue as its push left it
Pushed(t) ==
    [i \in 1..call[t].pushed |-> TxFrame(call[t].tr, i, call[t].pushed, transfer[t])]
AfterPush(t) == TxQueueInsert(call[t].pre, Pushed(t))

DrainPcs == {"tx_peek", "tx_send", "tx_pop", "tx_free", "tx_give"}

\* frames the running drain loop has popped so far
Popped(t) == IF pc[t] = "tx_pop" THEN call[t].nsent - 1 ELSE call[t].nsent

\* positions of the history at which a frame was accepted / refused / freed
Accepted(f) ==
    {i \in 1..Len(tx_trace) : tx_trace[i].ev = "send" /\ tx_trace[i].txf = f
                                /\ tx_trace[i].res = 0}
Refused(f) ==
    {i \in 1..Len(tx_trace) : tx_trace[i].ev = "send" /\ tx_trace[i].txf = f
                                /\ tx_trace[i].res # 0}
Freed(f) ==
    {i \in 1..Len(tx_trace) : tx_trace[i].ev = "free" /\ tx_trace[i].txf = f}

\* C2: all through a drain loop the send queue is the queue the push left
\* minus the frames accepted so far, so a call whose k-th offer is refused
\* returns with all but the first k-1 frames still queued, in order (frames
\* k..N of its own transfer when the queue was empty before), and each of
\* the first k-1 frames sent once and freed once; the first frame a later
\* call offers is the head of the queue its own push left, which is frame k
\* unless the call's new transfer has a lower CAN id and was queued ahead of
\* it; no frame that was accepted is ever offered again.
C2_BusyKeepsRest ==
    /\ \A t \in Tasks :
          (pc[t] \in DrainPcs /\ call[t].op = "transmit") =>
              /\ Popped(t) >= 0 /\ Popped(t) <= Len(AfterPush(t))
              /\ txq = SubSeq(AfterPush(t), Popped(t) + 1, Len(AfterPush(t)))
              /\ pc[t] = "tx_send" => txf[t] = AfterPush(t)[call[t].nsent + 1]
              /\ \A i \in 1..Popped(t) :
                    /\ Cardinality(Accepted(AfterPush(t)[i])) = 1
                    /\ pc[t] # "tx_free" \/ i < Popped(t) =>
                          Cardinality(Freed(AfterPush(t)[i])) = 1
              /\ (pc[t] = "tx_give" /\ call[t].busy /\ call[t].pre = <<>>) =>
                    /\ Len(txq) = call[t].pushed - call[t].noffer + 1
                    /\ \A j \in 1..Len(txq) :
                          /\ FrTr(txq[j]) = call[t].tr
                          /\ FrIdx(txq[j]) = call[t].noffer - 1 + j
    /\ \A i \in 1..Len(tx_trace) :
          (tx_trace[i].ev = "send" /\ tx_trace[i].res = 0) =>
              \A j \in (i + 1)..Len(tx_trace) :
                  tx_trace[j].ev = "send" => tx_trace[j].txf # tx_trace[i].txf

\* the first frame a call offers is the frame the previous call was refused
C2_ResumesAtRefused ==
    \A t \in Tasks :
        (pc[t] = "tx_send" /\ call[t].noffer = 0 /\ call[t].pre # <<>>) =>
            txf[t] = Head(call[t].pre)

\* a 3-frame transfer was refused at its 2nd frame, and a later call that
\* found frames 2 and 3 queued has sent both, in this order
C2_ThreeFramesBusyOnSecond ==
    \E t \in Tasks :
        /\ pc[t] = "tx_give" /\ txq = <<>>
        /\ Len(call[t].pre) = 2
        /\ FrCount(call[t].pre[1]) = 3 /\ FrIdx(call[t].pre[1]) = 2
        /\ FrTr(call[t].pre[2]) = FrTr(call[t].pre[1]) /\ FrIdx(call[t].pre[2]) = 3
        /\ Refused(call[t].pre[1]) # {}
        /\ \E i \in Accepted(call[t].pre[1]), j \in Accepted(call[t].pre[2]) : i < j

\* C3: in the history of the drain loops every accepted send (result 0) is
\* followed at once by the pop of that frame and then the free of that
\* frame, by the same task, before anything else happens; a refused send is
\* followed by no pop and no free (the next event is a send of a later
\* loop); a frame is accepted at most once and freed at most once, no block
\* is freed that is not live, and whenever no task is between a send and
\* its free every accepted frame is out of the queue and out of the heap.
C3_SendThenPopThenFree ==
    /\ \A i \in 1..Len(tx_trace) :
          LET e == tx_trace[i] IN
          /\ (e.ev = "send" /\ e.res = 0) =>
                /\ i = Len(tx_trace) => pc[e.by] = "tx_pop"
                /\ i < Len(tx_trace) =>
                      tx_trace[i + 1] = [ev |-> "pop", by |-> e.by, txf |-> e.txf]
                /\ i + 1 = Len(tx_trace) => pc[e.by] = "tx_free"
                /\ i + 1 < Len(tx_trace) =>
                      tx_trace[i + 2] = [ev |-> "free", by |-> e.by, txf |-> e.txf]
                /\ i + 2 < Len(tx_trace) => tx_trace[i + 3].ev = "send"
          /\ (e.ev = "send" /\ e.res # 0) =>
                /\ i = Len(tx_trace) => pc[e.by] \notin {"tx_pop", "tx_free"}
                /\ i < Len(tx_trace) => tx_trace[i + 1].ev = "send"
          /\ e.ev = "pop" => i > 1 /\ tx_trace[i - 1].ev = "send" /\ tx_trace[i - 1].res = 0
          /\ e.ev = "free" => i > 1 /\ tx_trace[i - 1].ev = "pop"
          /\ e.ev = "send" => Cardinality(Accepted(e.txf)) <= 1
          /\ e.ev = "send" => Cardinality(Freed(e.txf)) <= 1
    /\ ~heap_fault
    /\ (\A t \in Tasks : pc[t] \notin {"tx_pop", "tx_free"}) =>
          \A i \in 1..Len(tx_trace) :
              (tx_trace[i].ev = "send" /\ tx_trace[i].res = 0) =>
                  /\ TxBlock(tx_trace[i].txf) \notin heap
                  /\ tx_trace[i].txf \notin Range(txq)
                  /\ Cardinality(Freed(tx_trace[i].txf)) = 1
    /\ free_count.tx <= alloc_count.tx

\* a drain loop is back at its head after a send that was accepted, and an
\* earlier loop ended on a send that was refused
C3_AcceptedAndRefused ==
    \E t \in Tasks :
        /\ pc[t] = "tx_peek"
        /\ tx_trace # <<>> /\ tx_trace[Len(tx_trace)].ev = "free"
        /\ \E i \in 1..Len(tx_trace) : tx_trace[i].ev = "send" /\ tx_trace[i].res # 0

\* C4: whenever a drain loop completes with an empty send queue, as many
\* frames of the send queue have been freed as were allocated and none is
\* live; the allocate and free counts of the adapter as a whole differ by
\* exactly the blocks the engine's receive side still holds for transfers
\* under reassembly.
C4_SendSideBalanced ==
    \A t \in Tasks :
        (pc[t] = "tx_give" /\ txq = <<>>) =>
            /\ alloc_count.tx = free_count.tx
            /\ \A b \in heap : Side(b) # "tx"
            /\ heap = rx_held
            /\ AllocCalls - FreeCalls = Cardinality(rx_held)

\* allocate_count == free_count whenever a drain completes with an empty queue
C4_CountsEqual ==
    \A t \in Tasks :
        (pc[t] = "tx_give" /\ txq = <<>>) => AllocCalls = FreeCalls

\* a drain loop that sent at least one frame completes with an empty queue
\* while the engine holds memory for a received frame
C4_DrainDoneWhileReceiving ==
    \E t \in Tasks :
        /\ pc[t] = "tx_give" /\ txq = <<>>
        /\ call[t].nsent >= 1
        /\ rx_held # {}

\* the ingestion calls that queued an item, and the processing task's
\* dequeues and accept steps, each in the order they happened
IsEnq(e) == e.ev = "enq"
IsDeq(e) == e.ev = "deq"
IsAccept(e) == e.ev = "accept"
Enqueued == SelectSeq(in_log, IsEnq)
Dequeued == SelectSeq(proc_log, IsDeq)
Accepts == SelectSeq(proc_log, IsAccept)

\* dequeued items the processing task has not yet handed to canardRxAccept
InHand == IF pc[ProcTask] \in {"stamp", "acc_take", "acc_accept"} THEN 1 ELSE 0

\* C5: the items the processing task has dequeued followed by the items
\* still queued are the items that were enqueued, in the order they were
\* enqueued (first in, first out; nothing but the processing task takes an
\* item out); the i-th accept step is handed the frame of the i-th dequeued
\* item, and every dequeued item has had its accept step except the one the
\* processing task holds on the way to it (none skipped, none twice).
C5_FifoOneAcceptEach ==
    /\ [i \in 1..Len(Enqueued) |-> Enqueued[i].item]
         = [i \in 1..Len(Dequeued) |-> Dequeued[i].item] \o rxq
    /\ Len(Accepts) = Len(Dequeued) - InHand
    /\ \A i \in 1..Len(Accepts) :
          /\ Accepts[i].frame.extended_can_id = Dequeued[i].item.frame_.id
          /\ Accepts[i].frame.payload_size = Dequeued[i].item.frame_.data_len
          /\ Accepts[i].frame.payload = Dequeued[i].item.frame_.data
    /\ InHand = 1 => queue_item = Dequeued[Len(Dequeued)].item

\* one producer queued three frames in a queue of capacity 3 and the three
\* accept steps were handed these frames in the same order
C5_ThreeInOrder ==
    /\ queue_size >= 3
    /\ Len(in_log) = 3 /\ Len(Accepts) = 3
    /\ \A i \in 1..3 :
          /\ in_log[i].by = in_log[1].by
          /\ in_log[i].ev = "enq"
          /\ Accepts[i].frame.payload = in_log[i].frame.data
    /\ in_log[1].frame # in_log[2].frame /\ in_log[2].frame # in_log[3].frame

\* what the calls of the ISR entry point made so far came to
IsrEvents == {i \in 1..Len(in_log) : in_log[i].by = IsrCtx}

\* C6: the ISR entry point can run whenever it is called, whatever the
\* queue holds and whoever holds the mutex; every call of it has completed
\* at the tick at which it was made; a call that found the queue full left
\* the frame out and, like a call that queued its frame, returned nothing.
C6_IsrNeverWaitsDropsSilently ==
    /\ budget.rx > 0 => ENABLED freecanard_process_received_frame_from_ISR
    /\ \A i \in IsrEvents :
          /\ in_log[i].done = in_log[i].called
          /\ in_log[i].ret = "void"
    /\ ret[IsrCtx] \in {NoObject, Void}

\* what the ISR entry point returns after a drop differs from what it
\* returns after queueing the frame
C6_IsrReportsDrop ==
    \A i, j \in IsrEvents :
        (in_log[i].ev = "enq" /\ in_log[j].ev = "drop") => in_log[i].ret # in_log[j].ret

\* the ISR entry point has just dropped a frame on a full queue, after an
\* earlier call of it had queued one
C6_IsrDroppedOnFull ==
    /\ in_log # <<>>
    /\ in_log[Len(in_log)].by = IsrCtx
    /\ in_log[Len(in_log)].ev = "drop"
    /\ Len(rxq) = queue_size
    /\ \E i \in IsrEvents : in_log[i].ev = "enq"

\* ingestion calls before position i that queued their frame
EnqueuedBefore(i) == Cardinality({j \in 1..(i - 1) : in_log[j].ev = "enq"})

\* C7: the queue never holds more items than its capacity; as long as the
\* processing task has dequeued nothing, a call of the ISR entry point
\* drops its frame exactly if capacity-many frames were queued before it,
\* and the queue holds the frames queued so far, in order, whatever was
\* dropped since; these frames are then dequeued in this order.
C7_BurstKeepsFirst ==
    /\ Len(rxq) <= queue_size
    /\ proc_log = <<>> =>
          /\ \A i \in IsrEvents :
                in_log[i].ev = "drop" <=> EnqueuedBefore(i) >= queue_size
          /\ rxq = [i \in 1..Len(Enqueued) |-> Enqueued[i].item]
          /\ IsrEvents = 1..Len(in_log) =>
                /\ Len(rxq) = IF Len(in_log) <= queue_size THEN Len(in_log) ELSE queue_size
                /\ \A i \in 1..Len(rxq) : rxq[i] = in_log[i].item
    /\ \A i \in 1..Len(Dequeued) : Dequeued[i].item = Enqueued[i].item
    /\ Len(Dequeued) + Len(rxq) = Len(Enqueued)

\* the ISR entry point was called once more than the queue has room before
\* anything was dequeued: the last frame was dropped, and the processing
\* task has been handed the others in their original order
C7_OneMoreThanCapacity ==
    /\ Len(in_log) = queue_size + 1
    /\ IsrEvents = 1..Len(in_log)
    /\ \A i \in 1..queue_size : in_log[i].ev = "enq"
    /\ in_log[queue_size + 1].ev = "drop"
    /\ Len(Dequeued) = queue_size
    /\ \A i \in 1..queue_size : Dequeued[i].item.frame_ = in_log[i].frame

\* what the calls of the task-context entry point made so far came to
TaskEvents == {i \in 1..Len(in_log) : in_log[i].by \in Tasks}

\* C8: a caller of the task-context entry point that is blocked on the full
\* queue has been blocked for at most its timeout; every call that has
\* returned returned no later than timeout ticks after it was made, a call
\* that gave up did so exactly when its timeout had passed, and every call
\* returned nothing, whether the frame was queued or not.
C8_BlocksAtMostTimeout ==
    /\ \A t \in Tasks :
          pc[t] = "q_wait" =>
              /\ call[t].timeout > 0
              /\ now - call[t].called <= call[t].timeout
    /\ \A i \in TaskEvents :
          /\ in_log[i].done - in_log[i].called <= in_log[i].timeout
          /\ in_log[i].ev = "drop" =>
                in_log[i].done - in_log[i].called = in_log[i].timeout
          /\ in_log[i].ret = "void"
    /\ \A t \in Tasks : ret[t] \in {NoObject, Void}

\* what the task-context entry point returns after a timeout differs from
\* what it returns after queueing the frame
C8_TaskReportsTimeout ==
    \A i, j \in TaskEvents :
        (in_log[i].ev = "enq" /\ in_log[j].ev = "drop") => in_log[i].ret # in_log[j].ret

\* a call of the task-context entry point found the queue full, waited a
\* tick and gave up, after an earlier call of it had queued its frame
C8_WaitedAndTimedOut ==
    /\ in_log # <<>>
    /\ in_log[Len(in_log)].by \in Tasks
    /\ in_log[Len(in_log)].ev = "drop"
    /\ in_log[Len(in_log)].timeout >= 1
    /\ in_log[Len(in_log)].done > in_log[Len(in_log)].called
    /\ \E i \in TaskEvents : in_log[i].ev = "enq"

\* C9: the i-th accept step is handed the frame id, length and data and the
\* redundant transport index the caller of the i-th successful ingestion
\* call supplied, whichever entry point was called.
C9_ItemAsSupplied ==
    \A i \in 1..Len(Accepts) :
        /\ Accepts[i].frame.extended_can_id = Enqueued[i].frame.id
        /\ Accepts[i].frame.payload_size = Enqueued[i].frame.data_len
        /\ Accepts[i].frame.payload = Enqueued[i].frame.data
        /\ Accepts[i].index = Enqueued[i].index

\* C10: the timestamp of the frame handed to the i-th accept step is the
\* time, in microseconds, at which the i-th successful ingestion call was
\* made.
C10_ArrivalTimestamp ==
    \A i \in 1..Len(Accepts) :
        Accepts[i].frame.timestamp_usec = pdTICKS_TO_US(Enqueued[i].called)

\* C11: in the processing task's history every accept step that returned 1
\* is followed at once by one callback with the transfer it produced and
\* then by one free of that transfer's payload, both with the processing
\* task holding the mutex, which it still holds until it gives it; an
\* accept step that returned 0 or an error is followed by neither (the next
\* event is the next dequeue); no payload is freed twice or when not live.
C11_CallbackThenFree ==
    /\ \A i \in 1..Len(proc_log) :
          LET e == proc_log[i] IN
          /\ (e.ev = "accept" /\ e.res = 1) =>
                /\ i = Len(proc_log) => pc[ProcTask] = "acc_callback"
                /\ i < Len(proc_log) =>
                      /\ proc_log[i + 1].ev = "callback"
                      /\ proc_log[i + 1].holder = ProcTask
                /\ i + 1 = Len(proc_log) => pc[ProcTask] = "acc_free"
                /\ i + 1 < Len(proc_log) =>
                      /\ proc_log[i + 2].ev = "free_payload"
                      /\ proc_log[i + 2].holder = ProcTask
                      /\ proc_log[i + 2].block = proc_log[i + 1].transfer.payload
                /\ i + 2 < Len(proc_log) => proc_log[i + 3].ev = "deq"
          /\ (e.ev = "accept" /\ e.res # 1) =>
                /\ i = Len(proc_log) => pc[ProcTask] \in {"acc_give_err", "recv"}
                /\ i < Len(proc_log) => proc_log[i + 1].ev = "deq"
          /\ e.ev = "callback" =>
                i > 1 /\ proc_log[i - 1].ev = "accept" /\ proc_log[i - 1].res = 1
          /\ e.ev = "free_payload" =>
                /\ i > 1 /\ proc_log[i - 1].ev = "callback"
                /\ e.block \notin heap
                /\ \A j \in 1..(i - 1) :
                      proc_log[j].ev = "free_payload" => proc_log[j].block # e.block
    /\ pc[ProcTask] \in {"acc_callback", "acc_free", "acc_give"} => mutex = ProcTask
    /\ ~heap_fault

\* the processing task, still holding the mutex, has called the callback
\* and freed the payload for a transfer completed by the second frame, the
\* first having been taken in without completing one
C11_TransferDelivered ==
    /\ pc[ProcTask] = "acc_give" /\ mutex = ProcTask
    /\ Len(proc_log) >= 4
    /\ proc_log[Len(proc_log)].ev = "free_payload"
    /\ proc_log[Len(proc_log) - 1].ev = "callback"
    /\ \E i \in 1..Len(proc_log) : proc_log[i].ev = "accept" /\ proc_log[i].res = 0

\* positions of a transmit call from which it can reach its return
BeforeReturn == {"tx_peek", "tx_send", "tx_give"}

\* C12: the transfer-id counter changes only in the increment that follows
\* the filling-in of a transmit call's transfer, it then goes up by one
\* modulo 256 and the transfer has the value it had before; every transmit
\* call takes these two steps exactly once before it returns, whatever the
\* push and the sends come to (a call passes from the filling-in to the
\* increment and on to the push, never back, and
\* returns only from the drain loop that follows the push); the frames a
\* call has queued carry the id of its transfer.
C12_TransferIdOncePerCall ==
    /\ [][/\ \/ transfer_id' = transfer_id
              \/ \E t \in Tasks :
                    /\ pc[t] = "tx_store" /\ pc'[t] = "tx_push"
                    /\ transfer_id' = (transfer_id + 1) % TransferIdWidth
                    /\ transfer[t].transfer_id = transfer_id
                    /\ transfer'[t] = transfer[t]
                    /\ \A u \in Tasks \ {t} : pc'[u] = pc[u] /\ transfer'[u] = transfer[u]
           /\ \A t \in Tasks :
                 /\ (pc[t] = "tx_prep" /\ pc'[t] # "tx_prep") =>
                       pc'[t] = "tx_store" /\ transfer'[t].transfer_id = transfer_id
                 /\ (pc[t] = "tx_store" /\ pc'[t] # "tx_store") =>
                       pc'[t] = "tx_push" /\ transfer_id' # transfer_id
                 /\ (pc'[t] = "tx_prep" /\ pc[t] # "tx_prep") => pc[t] = "tx_take"
                 /\ (pc'[t] = "tx_store" /\ pc[t] # "tx_store") => pc[t] = "tx_prep"
                 /\ (pc'[t] = "tx_push" /\ pc[t] # "tx_push") => pc[t] = "tx_store"
                 /\ (pc'[t] = "tx_give" /\ pc[t] # "tx_give") => pc[t] \in BeforeReturn
                 /\ (pc'[t] = "tx_peek" /\ pc[t] # "tx_peek") => pc[t] \in {"tx_push", "tx_free"}
                 /\ (pc[t] \in DrainPcs /\ pc'[t] \in DrainPcs) =>
                       transfer'[t] = transfer[t]]_vars
    /\ [](\A t \in Tasks :
            pc[t] \in DrainPcs =>
                /\ transfer[t].transfer_id \in 0..(TransferIdWidth - 1)
                /\ \A i \in 1..Len(txq) :
                      FrTr(txq[i]) = call[t].tr =>
                          txq[i].payload[4] = transfer[t].transfer_id)
    /\ [](transfer_id \in 0..(TransferIdWidth - 1))

\* a transmit call whose push failed is about to return: it used the last
\* id before the wrap-around and left the counter at 0
C12_PushFailedAtWrap ==
    \E t \in Tasks :
        /\ pc[t] = "tx_give"
        /\ call[t].pushed = 0 /\ call[t].pre = <<>>
        /\ transfer[t].transfer_id = TransferIdWidth - 1
        /\ transfer_id = 0

\* positions of a transmit call at which it holds the mutex
HoldingPcs == {"tx_prep", "tx_store", "tx_push"} \cup DrainPcs

\* C13: a transmit call that holds the mutex returns (with the caller
\* scheduled and platform_send returning): it waits for nothing, the mutex
\* is its own all the way; its drain loop calls platform_send at most once
\* for each frame that was in the send queue after its push, every call of
\* platform_send but the last having removed a frame.
C13_DrainTerminates ==
    /\ \A t \in Tasks : (pc[t] \in HoldingPcs) ~> (pc[t] = "idle")
    /\ [](\A t \in Tasks :
            /\ pc[t] \in HoldingPcs => mutex = t
            /\ pc[t] \in DrainPcs =>
                  /\ call[t].noffer <= call[t].pushed + Len(call[t].pre)
                  /\ call[t].noffer <= call[t].nsent + 1
                  /\ call[t].noffer = call[t].nsent + (IF call[t].busy THEN 1 ELSE 0))

\* a transmit call is about to return after the link refused the second
\* frame it offered, while the other task waits for the mutex
C13_StoppedOnBusy ==
    \E t, u \in Tasks :
        /\ pc[t] = "tx_give" /\ call[t].busy /\ call[t].noffer = 2
        /\ pc[u] = "tx_take"

\* positions of the history at which platform_send accepted a frame
AcceptedSends == {i \in 1..Len(tx_trace) : tx_trace[i].ev = "send" /\ tx_trace[i].res = 0}

\* C14: whatever platform_send answers, the frames of one transfer are
\* accepted in the order of their enqueueing (rising index), so none is
\* accepted twice; a frame that is offered to platform_send, and a frame
\* that is popped after it, is the head of the send queue at that moment.
C14_TransferFramesInOrder ==
    /\ \A i, j \in AcceptedSends :
          (i < j /\ FrTr(tx_trace[i].txf) = FrTr(tx_trace[j].txf)) =>
              FrIdx(tx_trace[i].txf) < FrIdx(tx_trace[j].txf)
    /\ \A t \in Tasks :
          pc[t] \in {"tx_send", "tx_pop"} => (txq # <<>> /\ txf[t] = Head(txq))
    /\ \A i \in 1..Len(tx_trace) :
          tx_trace[i].ev = "pop" => tx_trace[i].txf = tx_trace[i - 1].txf

\* the three frames of one transfer were accepted across a refusal: the
\* first by one call, the second refused, then the second and the third
\* accepted by a call of the other task
C14_ThreeAcceptedAcrossBusy ==
    \E i, j, k, l \in 1..Len(tx_trace) :
        /\ i < j /\ j < k /\ k < l
        /\ {i, k, l} \subseteq AcceptedSends
        /\ tx_trace[j].ev = "send" /\ tx_trace[j].res # 0
        /\ tx_trace[j].txf = tx_trace[k].txf
        /\ tx_trace[k].by # tx_trace[i].by
        /\ FrTr(tx_trace[i].txf) = FrTr(tx_trace[k].txf)
        /\ FrTr(tx_trace[k].txf) = FrTr(tx_trace[l].txf)
        /\ FrIdx(tx_trace[i].txf) = 1 /\ FrIdx(tx_trace[k].txf) = 2
        /\ FrIdx(tx_trace[l].txf) = 3

\* C15: a frame canardRxAccept completed no transfer for (an error or 0) is
\* followed by no callback and no free: the processing task gives the mutex
\* and is back at xQueueReceive with the mutex free, and the next thing it
\* does is dequeue the next item.  With every thread scheduled, every frame
\* that entered the queue gets its accept step, whatever the frames before
\* it came to, and every transmit call returns.
C15_RefusedFrameStallsNothing ==
    /\ [](\A i \in 1..Len(proc_log) :
            (proc_log[i].ev = "accept" /\ proc_log[i].res # 1) =>
                /\ i < Len(proc_log) => proc_log[i + 1].ev = "deq"
                /\ i = Len(proc_log) =>
                      /\ pc[ProcTask] \in {"acc_give_err", "recv"}
                      /\ pc[ProcTask] = "acc_give_err" => mutex = ProcTask
                      /\ pc[ProcTask] = "recv" => mutex # ProcTask)
    /\ (pc[ProcTask] = "acc_give_err") ~> (pc[ProcTask] = "recv" /\ mutex # ProcTask)
    /\ \A n \in 1..DropRxCalls : (Len(Enqueued) >= n) ~> (Len(Accepts) >= n)
    /\ \A t \in Tasks : (pc[t] = "tx_take") ~> (pc[t] = "idle")

\* canardRxAccept returned an error for the first frame and has been handed
\* the second, and a transmit call made in between has sent a frame
C15_LaterFrameAfterError ==
    /\ Len(Accepts) = 2
    /\ Accepts[1].res = AcceptError
    /\ \E i \in 1..Len(tx_trace) : tx_trace[i].ev = "send"
    /\ \E t \in Tasks : pc[t] \in DrainPcs

\* C17: whatever the interleaving of freecanard_init and the processing
\* task it creates, the task reads ins->user_reference only after
\* freecanard_init has stored the cookie there, waits on the queue only
\* once the queue exists, and hands the engine instance to canardRxAccept
\* (which uses the allocator) only once both are initialised.
C17_NoReadBeforeSet ==
    /\ setup.read_at \in {"never", "cookie"}
    /\ pc[ProcTask] \notin {"unborn", "start"} =>
          setup.processing_task_queue_ = "handle"
    /\ pc[ProcTask] \in {"acc_accept", "acc_callback", "acc_free"} =>
          (setup.ins = "init" /\ setup.o1heap_ = "handle")

\* C18: when xSemaphoreCreateMutex has returned NULL, freecanard_init stops:
\* it does not get past the taking of the mutex to initialise the allocator
\* and the engine, and it does not return.
C18_NoSetupWithoutMutex ==
    setup.mutex_ = NULL => setup.pc \notin {"heap", "canard", "ref", "give", "done"}

\* positions between the take and the give of an operation, and the
\* positions of its give
CriticalPcs ==
    HoldingPcs \cup {"sub_body", "unsub_body", "sub_give", "acc_accept",
                     "acc_callback", "acc_free", "acc_give", "acc_give_err"}
GivePcs == {"tx_give", "sub_give", "acc_give", "acc_give_err"}
InitCriticalPcs == {"heap", "canard", "ref", "give"}

\* C16: a thread holds the mutex exactly while it is between the take and
\* the give of an operation (subscribe, unsubscribe, a transmit function, an
\* iteration of the processing task, and freecanard_init once it has a
\* mutex), whatever the engine, the push, the link or the accept step
\* answered; so whenever no operation is in progress the mutex is free.  The
\* mutex leaves a thread only at a give of that thread, which finds it
\* held by that thread, frees it and ends the operation.
C16_GivenOnceOnEveryPath ==
    /\ [](/\ mutex \in Threads \cup {InitCtx, NoThread}
          /\ \A t \in Threads : (mutex = t) <=> (pc[t] \in CriticalPcs)
          /\ (mutex = InitCtx) <=>
                (setup.mutex_ = "handle" /\ setup.pc \in InitCriticalPcs)
          /\ ((\A t \in Threads : pc[t] \notin CriticalPcs)
                /\ setup.pc \notin InitCriticalPcs) => mutex = NoThread)
    /\ [][/\ \A t \in Threads :
                (mutex = t /\ mutex' # t) =>
                    /\ pc[t] \in GivePcs
                    /\ pc'[t] \in {"idle", "recv"}
                    /\ mutex' = NoThread
          /\ (mutex = InitCtx /\ mutex' # InitCtx) =>
                (setup.pc = "give" /\ setup'.pc = "done" /\ mutex' = NoThread)
          /\ \A t \in Threads :
                (pc[t] \in GivePcs /\ pc'[t] # pc[t]) => mutex = t
          /\ (setup.pc = "give" /\ setup'.pc # "give" /\ setup.mutex_ = "handle") =>
                mutex = InitCtx]_vars

\* every call the environment could make has been made and has returned
\* after freecanard_init, among them a transmit call that stopped on a busy
\* link and a frame canardRxAccept completed no transfer for, and a
\* subscribe call
C16_AllPathsTaken ==
    /\ setup.pc = "done"
    /\ \A t \in Tasks : pc[t] = "idle"
    /\ pc[ProcTask] = "recv" /\ rxq = <<>>
    /\ budget.tx = 0 /\ budget.rx = 0 /\ budget.sub = 0
    /\ mutex = NoThread
    /\ \E i \in 1..Len(tx_trace) : tx_trace[i].ev = "send" /\ tx_trace[i].res # 0
    /\ \E i \in 1..Len(proc_log) : proc_log[i].ev = "accept" /\ proc_log[i].res # 1

\* C19: every call of platform_send is given a can_fd flag that is true
\* exactly if the MTU the engine is configured with is above the classic
\* CAN frame size.
C19_FlagIffAboveClassic ==
    \A i \in 1..Len(tx_trace) :
        tx_trace[i].ev = "send" =>
            (tx_trace[i].can_fd <=> (mtu_bytes > CANARD_MTU_CAN_CLASSIC))

\* C20: once the callback has called a lock-taking operation the processing
\* task stays at that operation's take for ever, holding the mutex; from
\* then on no task is anywhere but idle or at a take, no task leaves a take,
\* and nothing more is dequeued or accepted.  With a callback that makes no
\* such call, every thread that waits for the mutex gets it.
C20_CallbackReentryDeadlocks ==
    /\ [](pc[ProcTask] = "cb_take" =>
            /\ mutex = ProcTask
            /\ \A t \in Tasks : pc[t] \in TakePcs \cup {"idle"})
    /\ [][pc[ProcTask] = "cb_take" =>
            /\ pc'[ProcTask] = "cb_take"
            /\ mutex' = ProcTask
            /\ proc_log' = proc_log
            /\ \A t \in Tasks : pc[t] \in TakePcs => pc'[t] = pc[t]]_vars
    /\ [](on_transfer_received_ \in ReentrantCallbacks =>
            \A i \in 1..Len(proc_log) :
                proc_log[i].ev = "callback" =>
                    (i = Len(proc_log) /\ pc[ProcTask] = "cb_take"))
    /\ \A t \in Threads :
          (pc[t] \in TakePcs /\ on_transfer_received_ \notin ReentrantCallbacks)
              ~> (pc[t] \notin TakePcs)

\* the processing task is stuck inside the callback while one task waits in
\* a transmit call, the other in a subscribe call, and a frame is queued
C20_EverythingBlocked ==
    /\ pc[ProcTask] = "cb_take" /\ mutex = ProcTask
    /\ \E t, u \in Tasks : pc[t] = "tx_take" /\ pc[u] \in {"sub_take", "unsub_take"}
    /\ rxq # <<>>

\* no task is inside a transmit call
NoTransmit == \A t \in Tasks : pc[t] \notin ({"tx_take"} \cup HoldingPcs)

\* C21: the send queue changes, and a frame is offered to platform_send,
\* popped or freed, only in a step of a task that is inside a transmit call
\* and holds the mutex: no ingestion call, processing-task step, subscribe
\* or unsubscribe call touches the queue.  So while no transmit call is in
\* progress the queue stays as it is, and after a drain that stopped on a
\* busy link its head is the frame that was refused, until the next
\* transmit call.
C21_QueueWaitsForTransmit ==
    /\ [][/\ txq' # txq =>
               \E t \in Tasks : /\ pc[t] \in {"tx_push", "tx_pop"}
                                /\ pc'[t] # pc[t]
                                /\ mutex = t
          /\ tx_trace' # tx_trace =>
               \E t \in Tasks : /\ pc[t] \in {"tx_send", "tx_pop", "tx_free"}
                                /\ pc'[t] # pc[t]
                                /\ mutex = t
          /\ NoTransmit => (txq' = txq /\ tx_trace' = tx_trace)]_vars
    /\ []((NoTransmit /\ tx_trace # <<>> /\ tx_trace[Len(tx_trace)].ev = "send") =>
            /\ tx_trace[Len(tx_trace)].res # 0
            /\ txq # <<>>
            /\ Head(txq) = tx_trace[Len(tx_trace)].txf)

\* a transmit call has stopped on a busy link with two frames left; since
\* then a received frame was accepted and a subscribe or unsubscribe call
\* has returned, no call is left to make, and the frames are still queued
C21_LeftQueuedForGood ==
    /\ NoTransmit /\ \A t \in Tasks : pc[t] = "idle"
    /\ budget.tx = 0 /\ budget.rx = 0 /\ budget.sub = 0
    /\ pc[ProcTask] = "recv" /\ rxq = <<>>
    /\ Len(txq) = 2
    /\ tx_trace # <<>> /\ tx_trace[Len(tx_trace)].ev = "send"
    /\ \E i \in 1..Len(proc_log) : proc_log[i].ev = "accept"

\* transmit calls that have written the counter back
PastStore ==
    (MaxTxCalls - budget.tx)
    - Cardinality({t \in Tasks : pc[t] \in {"tx_take", "tx_prep", "tx_store"}})

\* C22: however the transmit calls of several tasks on one counter
\* interleave, no increment is lost: the calls that have got past the
\* increment have been given consecutive ids modulo 256, each a different
\* one, in the order in which they held the mutex, and the counter stands
\* at the first of these ids plus their number, modulo 256; a call's
\* transfer carries the id the call was given.
C22_NoIncrementLost ==
    /\ Len(id_log) = PastStore
    /\ \A i \in 1..Len(id_log) :
          /\ id_log[i].id = (id_log[1].id + i - 1) % TransferIdWidth
          /\ id_log[i].stored = (id_log[i].id + 1) % TransferIdWidth
          /\ \A j \in 1..Len(id_log) : i # j => id_log[i].id # id_log[j].id
    /\ id_log # <<>> =>
          transfer_id = (id_log[1].id + Len(id_log)) % TransferIdWidth
    /\ \A t \in Tasks :
          pc[t] \in ({"tx_push"} \cup DrainPcs) =>
              \E i \in 1..Len(id_log) :
                  id_log[i].by = t /\ id_log[i].id = transfer[t].transfer_id

\* two calls overlapped at the wrap-around: the call that was made first
\* got the mutex second, after the other task's call was given id 255, and
\* has been given id 0
C22_OverlappingCallsAtWrap ==
    \E t \in Tasks :
        /\ pc[t] = "tx_push" /\ call[t].tr = MaxTxCalls
        /\ Len(id_log) = 2
        /\ id_log[1].by # t /\ id_log[1].id = TransferIdWidth - 1
        /\ id_log[2].by = t /\ id_log[2].id = 0
        /\ transfer_id = 1

\* C23: all through the drain loop of a transmit call whose push failed,
\* the send queue and the heap hold no frame of the new transfer and none
\* was offered to platform_send; the call has nevertheless used up an id
\* (the counter was advanced before the push); the queue is the queue the
\* call found minus the frames accepted since, the loop offers the frames
\* found in their order, and each accepted one was sent once and freed
\* once; the call hands nothing back to its caller.
C23_FailedPushStillDrains ==
    /\ \A t \in Tasks :
          (pc[t] \in DrainPcs /\ call[t].pushed = 0) =>
              /\ \A i \in 1..Len(txq) : FrTr(txq[i]) # call[t].tr
              /\ \A b \in heap : Side(b) = "tx" => b[2] # call[t].tr
              /\ \A i \in 1..Len(tx_trace) : FrTr(tx_trace[i].txf) # call[t].tr
              /\ \E i \in 1..Len(id_log) :
                    /\ id_log[i].by = t
                    /\ id_log[i].id = transfer[t].transfer_id
                    /\ i = Len(id_log) => transfer_id = id_log[i].stored
              /\ Popped(t) >= 0 /\ Popped(t) <= Len(call[t].pre)
              /\ txq = SubSeq(call[t].pre, Popped(t) + 1, Len(call[t].pre))
              /\ pc[t] = "tx_send" => txf[t] = call[t].pre[call[t].nsent + 1]
              /\ \A i \in 1..Popped(t) :
                    /\ Cardinality(Accepted(call[t].pre[i])) = 1
                    /\ pc[t] # "tx_free" \/ i < Popped(t) =>
                          Cardinality(Freed(call[t].pre[i])) = 1
                    /\ \A j \in 1..(i - 1) :
                          \A a \in Accepted(call[t].pre[j]), b \in Accepted(call[t].pre[i]) : a < b
    /\ \A t \in Tasks : ret[t] \in {NoObject, Void}

\* a call whose push failed found two frames queued and has sent and freed
\* both; the counter has moved on
C23_DrainedAfterFailedPush ==
    \E t \in Tasks :
        /\ pc[t] = "tx_give" /\ call[t].pushed = 0
        /\ Len(call[t].pre) = 2 /\ call[t].nsent = 2 /\ txq = <<>>
        /\ heap = {}
        /\ transfer_id = (transfer[t].transfer_id + 1) % TransferIdWidth

\* C24: the microsecond timestamp does not go down as the tick count goes
\* up: the frames handed to canardRxAccept, which are stamped one after the
\* other, carry timestamps that never decrease, and none of them is above
\* the timestamp of the present tick count.
C24_TimestampMonotonic ==
    /\ \A i, j \in 1..Len(Accepts) :
          i <= j => Accepts[i].frame.timestamp_usec <= Accepts[j].frame.timestamp_usec
    /\ \A i \in 1..Len(Accepts) :
          Accepts[i].frame.timestamp_usec <= freecanard_get_us

====
